---- MODULE Spec2Model ----
(***************************************************************************)
(* Model of the tiflis tunnel fabric (apps/tiflis-tunnel): the workstation *)
(* registry with its reconnect grace period, the server connection handler *)
(* and the public unary proxy.                                             *)
(*                                                                         *)
(* The specifications share the variables:                                 *)
(*   SpecRegistry   the registry's API called in any order by any caller;  *)
(*   Spec           the tunnel server: connection handlers, cleanup task,  *)
(*                  clock and external requests;                           *)
(*   SpecHandshake  the connection handlers alone, no time passing;        *)
(*   SpecDuplicate  two agents whose Register for one id the server has    *)
(*                  just read, beside the agents of other workstations;    *)
(*   SpecRestart    agents without a session ticket file that are stopped  *)
(*                  and started again within the grace period, and the     *)
(*                  external requests to them;                             *)
(*   SpecReconnect  handshakes of both kinds, with a right or a wrong key, *)
(*                  while time passes and entries expire;                  *)
(*   SpecTicketLive an agent started with a session ticket file that keeps *)
(*                  retrying, with fair handler tasks;                     *)
(*   SpecProxy      one external request at a time proxied to an agent on  *)
(*                  the unary, SSE or WebSocket path, the agent being the  *)
(*                  tunnel client or any peer that holds the API key;      *)
(*   SpecAgent      the agent process: its outer loop and its reconnect    *)
(*                  strategy;                                              *)
(*   SpecWs         one WebSocket relay: the two tasks of the server, the  *)
(*                  two tasks of the agent, the substream and the sockets; *)
(*   SpecCodec      calls of encode_message, decode_message, recv_message; *)
(*   SpecPending    calls of the pending request table's API;              *)
(*   SpecInbound    the inbound substreams of one registered transport;    *)
(*   SpecInFlight   unary requests for a workstation whose agent loses its *)
(*                  transport and reattaches;                              *)
(*   SpecClassify   calls of the classifier of handle_http_proxy;          *)
(*   SpecSse        the server's relay loop of one SSE response, and       *)
(*                  SpecSseLive, the same with a fair relay task;          *)
(*   SpecSseHead    the head of the SSE response built from SseHeaders;    *)
(*   SpecSseOpen    the agent's LocalProxy::handle_sse_open on one SseOpen; *)
(*   SpecFraming    handshakes whose first frame may be unreadable or of   *)
(*                  another variant, and SpecFramingLive, the same with    *)
(*                  fair handler tasks;                                    *)
(*   SpecStale      a Reconnect on a new transport while the handler of    *)
(*                  the dead old transport has not run yet;                *)
(*   SpecLocks      the tasks of the server taking and dropping the locks  *)
(*                  of the registry and of the pending table.              *)
(* Time is counted in seconds; SpecRegistry advances the clock second by   *)
(* second, Spec in steps of TickSeconds.                                   *)
(***************************************************************************)
EXTENDS Integers, FiniteSets, Sequences, TLC

\* ------------------------------------------------------------------ bounds
MaxConns == 2          \* Spec: transports (QUIC connections) open at one time
MaxIds == 2            \* distinct workstation ids
MaxTime == 15          \* Spec: the clock stops here (seconds)
Grace == 5             \* Spec: the configured grace period G (seconds)
MaxLimit == 2          \* Spec: largest configured max_workstations N
HsConns == 2           \* SpecHandshake: transports open at one time
HsIds == 2             \* SpecHandshake: distinct workstation ids
HsLimit == 2           \* SpecHandshake: largest configured max_workstations N
RsConns == 2           \* SpecRestart: transports open at one time
RsIds == 1             \* SpecRestart: distinct workstation ids
RsLimit == 1           \* SpecRestart: largest configured max_workstations N
RcConns == 1           \* SpecReconnect: transports open at one time
RcIds == 1             \* SpecReconnect: distinct workstation ids
RcLimit == 1           \* SpecReconnect: largest configured max_workstations N
TkConns == 2           \* SpecTicketLive: transports the agent has open at a time
IfConns == 2           \* SpecInFlight: transports the agents open
DupOthers == 1         \* SpecDuplicate: transports of other workstations
DupIds == 2            \* SpecDuplicate: distinct workstation ids
DupLimit == 2          \* SpecDuplicate: largest configured max_workstations N
RegHandles == 2        \* SpecRegistry: transport handles passed to the API
RegMaxTime == 4        \* SpecRegistry: the clock stops here
RegGrace == 2          \* SpecRegistry: the grace period G (seconds)
AgentMaxWaits == 10    \* SpecAgent: consecutive failed attempts followed from a start
AgentMaxDelay == 13    \* SpecAgent: largest configured reconnect.max_delay (seconds)
AgentMargin == 2       \* SpecAgent: how far below u32::MAX a long run of failures starts
MaxFrames == 2         \* SpecWs: Text and Binary frames each peer sends
SmallJson == 29        \* SpecCodec: the length of the JSON text of a small message
CodecSizes == 1        \* SpecCodec: how many more small lengths are tried
PendIds == 2           \* SpecPending, SpecInbound: distinct stream ids
MaxSlots == 2          \* SpecPending: calls of register
MaxInbound == 2        \* SpecInbound: inbound substreams accepted
MaxAccept == 2         \* SpecClassify: Accept header lines of a request
MaxParts == 2          \* SpecClassify: parts of one Accept header value
MaxSseMsgs == 4        \* SpecSse: messages the agent writes on the substream
MaxChunks == 2         \* SpecSseOpen: chunks of the origin's body
FrConns == 2           \* SpecFraming: transports the agents open
LkProxies == 2         \* SpecLocks: external requests served at the same time

\* ------------------------------------------------------- program constants
CleanupInterval == 10  \* start_cleanup_task: interval(Duration::from_secs(10))
BaseDelayMs == 100     \* calculate_delay: Duration::from_millis(100)
MaxExponent == 7       \* calculate_delay: .min(7)
MaxMessageLen == 10000000  \* recv_message: if len > 10_000_000

\* Spec observes the clock twice per cleanup interval.
TickSeconds == CleanupInterval \div 2

Conns == 1..MaxConns
Ids == 1..MaxIds
None == [tag |-> "None"]

VARIABLES
    registry,          \* WorkstationRegistry.workstations: a set of WorkstationInfo
    grace_period,      \* WorkstationRegistry.grace_period = config.reliability.grace_period
    max_workstations,  \* config.limits.max_workstations
    now,               \* Instant::now(), in seconds since the server started
    last,              \* SpecRegistry: the last registry call and its result
    conn,              \* Spec: per transport, the transport and its handle_connection task
    cleanupDue,        \* Spec: the instant of the cleanup task's next interval tick
    req,               \* Spec: the external unary request being served by handle_http_proxy
    exch,              \* SpecProxy: one proxied exchange, from the external request to its outcome
    agent,             \* SpecAgent: the agent process: TunnelClient::run and its ReconnectStrategy
    relay,             \* SpecWs, SpecSse: one relay: its tasks, sockets and substream
    pending,           \* SpecInbound: PendingRequests.requests and the inbound substreams
    call               \* SpecCodec, SpecClassifier: a call of a pure function and its result

vars == <<registry, grace_period, max_workstations, now, last, conn, cleanupDue, req,
          exch, agent, relay, pending, call>>

\* No exchange is being proxied; no agent process is modelled.
NoExch == [pc |-> "idle"]
NoAgent == [pc |-> "none"]

\* No relay, no inbound loop and no pure function is modelled.
NoRelay == [pc |-> "none"]
NoPending == [pc |-> "none"]
NoFn == [fn |-> "none"]
Rest == <<relay, pending, call>>
RestIdle == relay = NoRelay /\ pending = NoPending /\ call = NoFn

\* ---------------------------------------------------------------- registry
\* WorkstationState (registry.rs)
Active == [tag |-> "Active"]
Reconnecting(since) == [tag |-> "Reconnecting", since |-> since]

\* WorkstationInfo. registered_at is written once and never read: left out.
WorkstationInfo(id, connection, state) ==
    [id |-> id, connection |-> connection, state |-> state]

\* HashMap::contains_key
contains_key(ws, id) == \E e \in ws : e.id = id

\* HashMap::insert: the value replaces whatever the key held.
\* Faulty variant: the old value of the key is kept beside the new one.
HashMapInsert_NoReplace(ws, id, info) == ws \cup {info}
HashMapInsert(ws, id, info) == {e \in ws : e.id # id} \cup {info}

\* HashMap::remove
HashMapRemove(ws, id) == {e \in ws : e.id # id}

\* WorkstationRegistry::get: a clone of the entry, or None
get(ws, id) ==
    IF contains_key(ws, id) THEN CHOOSE e \in ws : e.id = id ELSE None

\* WorkstationRegistry::count
count(ws) == Cardinality(ws)

\* WorkstationRegistry::register. The result is the Result and the map after.
\* Faulty variant: no contains_key check, the entry is overwritten.
register_Overwrite(ws, id, connection) ==
    [res |-> "Ok", ws |-> HashMapInsert(ws, id, WorkstationInfo(id, connection, Active))]
register(ws, id, connection) ==
    IF contains_key(ws, id)
    THEN [res |-> "Duplicate", ws |-> ws]
    ELSE [res |-> "Ok",
          ws |-> HashMapInsert(ws, id, WorkstationInfo(id, connection, Active))]

\* WorkstationRegistry::mark_reconnecting
mark_reconnecting(ws, id, t) ==
    IF contains_key(ws, id)
    THEN HashMapInsert(ws, id, [get(ws, id) EXCEPT !.state = Reconnecting(t)])
    ELSE ws

\* since.elapsed() > self.grace_period
Expired(since, t, grace) == t - since > grace

\* WorkstationRegistry::reconnect
\* Faulty variant: an absent id is inserted instead of refused.
reconnect_Upsert(ws, id, connection, t, grace) ==
    LET info == get(ws, id) IN
    IF info # None /\ info.state.tag = "Reconnecting" /\ Expired(info.state.since, t, grace)
    THEN [res |-> "GraceExpired", ws |-> ws]
    ELSE [res |-> "Ok",
          ws |-> HashMapInsert(ws, id, WorkstationInfo(id, connection, Active))]
\* Faulty variant: a refused reconnect removes the expired entry.
reconnect_DropExpired(ws, id, connection, t, grace) ==
    LET info == get(ws, id) IN
    IF info = None THEN [res |-> "NotFound", ws |-> ws]
    ELSE IF info.state.tag = "Reconnecting" /\ Expired(info.state.since, t, grace)
    THEN [res |-> "GraceExpired", ws |-> HashMapRemove(ws, id)]
    ELSE [res |-> "Ok",
          ws |-> HashMapInsert(ws, id, WorkstationInfo(id, connection, Active))]
\* Faulty variant: the grace period ends one instant early (>= for >).
reconnect_OffByOne(ws, id, connection, t, grace) ==
    LET info == get(ws, id) IN
    IF info = None THEN [res |-> "NotFound", ws |-> ws]
    ELSE IF info.state.tag = "Reconnecting" /\ t - info.state.since >= grace
    THEN [res |-> "GraceExpired", ws |-> ws]
    ELSE [res |-> "Ok",
          ws |-> HashMapInsert(ws, id, WorkstationInfo(id, connection, Active))]
reconnect(ws, id, connection, t, grace) ==
    LET info == get(ws, id) IN
    IF info = None THEN [res |-> "NotFound", ws |-> ws]
    ELSE IF info.state.tag = "Reconnecting" /\ Expired(info.state.since, t, grace)
    THEN [res |-> "GraceExpired", ws |-> ws]
    ELSE [res |-> "Ok",
          ws |-> HashMapInsert(ws, id, WorkstationInfo(id, connection, Active))]

\* WorkstationRegistry::unregister
unregister(ws, id) == HashMapRemove(ws, id)

\* WorkstationRegistry::cleanup_expired: retain what is not past its grace period
cleanup_expired(ws, t, grace) ==
    {e \in ws : IF e.state.tag = "Reconnecting"
                THEN t - e.state.since <= grace
                ELSE TRUE}

\* ------------------------------------------------- SpecRegistry: the API
NoCall == [op |-> "none", id |-> 0, connection |-> 0, res |-> "none"]
Call(op, id, connection, res) ==
    [op |-> op, id |-> id, connection |-> connection, res |-> res]

RegInit ==
    /\ grace_period = RegGrace
    /\ max_workstations = MaxLimit
    /\ registry = {}
    /\ now = 0
    /\ last = NoCall
    /\ conn = <<>>
    /\ cleanupDue = 0
    /\ req = <<>>
    /\ exch = NoExch
    /\ agent = NoAgent
    /\ RestIdle

RegUnchanged ==
    UNCHANGED <<grace_period, max_workstations, conn, cleanupDue, req, exch, agent, Rest>>

OpRegister(id, c) ==
    LET r == register(registry, id, c) IN
    /\ registry' = r.ws
    /\ last' = Call("register", id, c, r.res)
    /\ UNCHANGED now /\ RegUnchanged

OpMarkReconnecting(id) ==
    /\ registry' = mark_reconnecting(registry, id, now)
    /\ last' = Call("mark_reconnecting", id, 0, "Ok")
    /\ UNCHANGED now /\ RegUnchanged

OpReconnect(id, c) ==
    LET r == reconnect(registry, id, c, now, grace_period) IN
    /\ registry' = r.ws
    /\ last' = Call("reconnect", id, c, r.res)
    /\ UNCHANGED now /\ RegUnchanged

OpUnregister(id) ==
    /\ registry' = unregister(registry, id)
    /\ last' = Call("unregister", id, 0, "Ok")
    /\ UNCHANGED now /\ RegUnchanged

OpCleanupExpired ==
    /\ registry' = cleanup_expired(registry, now, grace_period)
    /\ last' = Call("cleanup_expired", 0, 0, "Ok")
    /\ UNCHANGED now /\ RegUnchanged

RegTick ==
    /\ now < RegMaxTime
    /\ now' = now + 1
    /\ UNCHANGED <<registry, last>> /\ RegUnchanged

RegNext ==
    \/ \E id \in Ids, c \in 1..RegHandles : OpRegister(id, c)
    \/ \E id \in Ids : OpMarkReconnecting(id)
    \/ \E id \in Ids, c \in 1..RegHandles : OpReconnect(id, c)
    \/ \E id \in Ids : OpUnregister(id)
    \/ OpCleanupExpired
    \/ RegTick

SpecRegistry == RegInit /\ [][RegNext]_vars

\* ------------------------------------------------------ Spec: the server
\* A transport as the server sees it:
\*   "up"      the agent is running and the connection works;
\*   "lost"    the agent is gone (crash, stop, network) and the server's QUIC
\*             stack has not noticed yet: writes and open_bi still succeed locally;
\*   "closed"  the connection is closed: accept_bi, open_bi, reads and writes fail.
\* pc is the position of the connection's handle_connection task.
FreeConn == [pc |-> "free", link |-> "up", kind |-> "none", id |-> 0, reply |-> "none"]

\* The idle request slot of the public proxy. connection is the handle in the
\* WorkstationInfo the proxy got from the registry, stream the transport its
\* substream was opened on (0: no substream).
NoReq == [pc |-> "idle", id |-> 0, connection |-> 0, stream |-> 0, origin |-> "none",
          status |-> 0]

\* connection.rs, Connection::connect: Reconnect when a session ticket file was
\* found when the agent process started, Register otherwise.
HandshakeKind(has_ticket) == IF has_ticket THEN "Reconnect" ELSE "Register"

\* The server after TunnelServer::new: an empty registry, no transport yet.
ServerInit(conns, limits) ==
    /\ grace_period = Grace
    /\ max_workstations \in limits
    /\ registry = {}
    /\ now = 0
    /\ last = NoCall
    /\ conn = [c \in conns |-> FreeConn]
    /\ cleanupDue = 0
    /\ req = NoReq
    /\ exch = NoExch
    /\ agent = NoAgent
    /\ RestIdle

Init == ServerInit(Conns, 1..MaxLimit)

\* What the connection handlers, the cleanup task and the unary proxy never write.
Config == <<grace_period, max_workstations, last, exch, agent, Rest>>

\* quic::send_message on the handshake substream: fails on a closed connection.
SendOk(c) == conn[c].link # "closed"

\* The handler returns (Ok or Err): its Connection handle is dropped, and the
\* connection closes unless the registry still holds a clone of the handle.
Finish(c, reply) ==
    [conn[c] EXCEPT !.pc = "done", !.reply = IF SendOk(c) THEN reply ELSE "SendFailed",
                    !.link = "closed"]

\* The ids are interchangeable, and so are the transports: a new transport takes
\* the lowest free slot, and a new id is the lowest id not used so far.
UsedIds == ({conn[c].id : c \in DOMAIN conn} \cup {e.id : e \in registry}) \ {0}
NextConn(c) == conn[c].pc = "free" /\ \A d \in DOMAIN conn : d < c => conn[d].pc # "free"
NextId(id) == \A j \in Ids : j < id => j \in UsedIds

\* Register and Reconnect: reg.api_key != self.config.auth.api_key, where key_ok
\* says that the two strings are equal.
\* Faulty variant: only the Register branch checks the key.
AuthFailed_RegisterOnly(kind, key_ok) == kind = "Register" /\ ~key_ok
AuthFailed(kind, key_ok) == ~key_ok

\* handle_connection, up to the first registry call: accept the transport and
\* its first substream, read one message, check the API key. kind "Unreadable"
\* is a frame that recv_message fails on (short, too large, not a Message): the
\* `?` returns from the handler, whose Connection handle is dropped.
Accept(c, kind, id, key_ok) ==
    /\ NextConn(c)
    /\ NextId(id)
    /\ LET h == [conn[c] EXCEPT !.kind = kind, !.id = id] IN
       conn' = [conn EXCEPT ![c] =
            IF kind = "Unreadable"
            THEN [h EXCEPT !.pc = "done", !.link = "closed"]
            ELSE IF kind = "Other"
            THEN [h EXCEPT !.pc = "done", !.reply = "INVALID_MESSAGE", !.link = "closed"]
            ELSE IF AuthFailed(kind, key_ok)
            THEN [h EXCEPT !.pc = "done", !.reply = "AUTH_FAILED", !.link = "closed"]
            ELSE IF kind = "Register" THEN [h EXCEPT !.pc = "count"]
            ELSE [h EXCEPT !.pc = "reconnect"]]
    /\ UNCHANGED <<registry, now, cleanupDue, req, Config>>

\* Register: registry.count().await >= max_workstations
AtCapacity(n, limit) == n >= limit

CountCheck(c) ==
    /\ conn[c].pc = "count"
    /\ conn' = [conn EXCEPT ![c] =
            IF AtCapacity(count(registry), max_workstations)
            THEN Finish(c, "LIMIT_REACHED")
            ELSE [conn[c] EXCEPT !.pc = "register"]]
    /\ UNCHANGED <<registry, now, cleanupDue, req, Config>>

\* Register: registry.register(id, connection.clone()).await
RegisterStep(c) ==
    /\ conn[c].pc = "register"
    /\ LET r == register(registry, conn[c].id, c) IN
       /\ registry' = r.ws
       /\ conn' = [conn EXCEPT ![c] =
            IF r.res = "Ok" THEN [conn[c] EXCEPT !.pc = "reply"]
            ELSE Finish(c, "REGISTRATION_FAILED")]
    /\ UNCHANGED <<now, cleanupDue, req, Config>>

\* Reconnect: registry.reconnect(id, connection.clone()).await
ReconnectStep(c) ==
    /\ conn[c].pc = "reconnect"
    /\ LET r == reconnect(registry, conn[c].id, c, now, grace_period) IN
       /\ registry' = r.ws
       /\ conn' = [conn EXCEPT ![c] =
            IF r.res = "Ok" THEN [conn[c] EXCEPT !.pc = "reply"]
            ELSE Finish(c, "RECONNECT_FAILED")]
    /\ UNCHANGED <<now, cleanupDue, req, Config>>

\* quic::send_message(&mut send, &Registered{url}).await?  A failed send returns
\* from handle_connection at once; the registry entry stays as it is.
SendRegistered(c) ==
    /\ conn[c].pc = "reply"
    /\ conn' = [conn EXCEPT ![c] =
            IF SendOk(c) THEN [conn[c] EXCEPT !.pc = "serve", !.reply = "Registered"]
            ELSE [conn[c] EXCEPT !.pc = "done", !.reply = "SendFailed"]]
    /\ UNCHANGED <<registry, now, cleanupDue, req, Config>>

\* What handle_connection does after handle_workstation_messages returns.
\* Faulty variant: the Register branch returns without unregister.
AfterServe_Keep(kind) == "done"
AfterServe(kind) == IF kind = "Register" THEN "unregister" ELSE "done"

\* handle_workstation_messages: accept_bi fails once the transport is closed, the
\* loop ends and the task calls registry.mark_reconnecting(id).
ServeEnd(c) ==
    /\ conn[c].pc = "serve"
    /\ conn[c].link = "closed"
    /\ registry' = mark_reconnecting(registry, conn[c].id, now)
    /\ conn' = [conn EXCEPT ![c].pc = AfterServe(conn[c].kind)]
    /\ UNCHANGED <<now, cleanupDue, req, Config>>

\* Register branch only: self.registry.unregister(&workstation_id).await
UnregisterStep(c) ==
    /\ conn[c].pc = "unregister"
    /\ registry' = unregister(registry, conn[c].id)
    /\ conn' = [conn EXCEPT ![c].pc = "done"]
    /\ UNCHANGED <<now, cleanupDue, req, Config>>

\* The agent crashes or is stopped, or the network goes away.
Lose(c) ==
    /\ conn[c].pc \notin {"free", "done"}
    /\ conn[c].link = "up"
    /\ conn' = [conn EXCEPT ![c].link = "lost"]
    /\ UNCHANGED <<registry, now, cleanupDue, req, Config>>

\* The same, noticed by the server's QUIC stack at once.
Die(c) ==
    /\ conn[c].pc \notin {"free", "done"}
    /\ conn[c].link = "up"
    /\ conn' = [conn EXCEPT ![c].link = "closed"]
    /\ UNCHANGED <<registry, now, cleanupDue, req, Config>>

\* The server's QUIC stack notices (close frame or idle timeout).
Close(c) ==
    /\ conn[c].link = "lost"
    /\ conn' = [conn EXCEPT ![c].link = "closed"]
    /\ UNCHANGED <<registry, now, cleanupDue, req, Config>>

\* start_cleanup_task: interval.tick().await; registry.cleanup_expired().await.
\* The first tick of a tokio interval completes at once, the next ones every
\* CleanupInterval seconds.
Cleanup ==
    /\ now >= cleanupDue
    /\ registry' = cleanup_expired(registry, now, grace_period)
    /\ cleanupDue' = cleanupDue + CleanupInterval
    /\ UNCHANGED <<now, conn, req, Config>>

\* Time passes. The cleanup task is not late: a due tick runs first.
Tick ==
    /\ now + TickSeconds <= MaxTime
    /\ now < cleanupDue
    /\ now' = now + TickSeconds
    /\ UNCHANGED <<registry, conn, cleanupDue, req, Config>>

\* A finished handler task is forgotten once nothing refers to its transport.
Forget(c) ==
    /\ conn[c].pc = "done"
    /\ \A e \in registry : e.connection # c
    /\ req.connection # c
    /\ req.stream # c
    /\ conn' = [conn EXCEPT ![c] = FreeConn]
    /\ UNCHANGED <<registry, now, cleanupDue, req, Config>>

\* The agent of transport c is in its accept loop (client.rs, handle_messages):
\* it has read Registered and its process is running.
AgentServing(c) == conn[c].link = "up" /\ conn[c].reply = "Registered"

\* handle_http_proxy: state.registry.get(&workstation_id).await.ok_or(NOT_FOUND)
ReqGet(id, origin) ==
    /\ req.pc \in {"idle", "done"}
    /\ LET info == get(registry, id) IN
       req' = IF info = None
              THEN [pc |-> "done", id |-> id, connection |-> 0, stream |-> 0,
                    origin |-> origin, status |-> 404]
              ELSE [pc |-> "open", id |-> id, connection |-> info.connection,
                    stream |-> 0, origin |-> origin, status |-> 0]
    /\ UNCHANGED <<registry, now, conn, cleanupDue, Config>>

\* workstation.connection.open_bi(): the transport of the WorkstationInfo that
\* registry.get returned (a clone made at the lookup).
\* Faulty variant: the substream is opened on the entry's transport of the moment.
OpenOn_Current(ws, r) ==
    IF get(ws, r.id) = None THEN r.connection ELSE get(ws, r.id).connection
OpenOn(ws, r) == r.connection

\* handle_http_proxy: open_bi, send_message(HttpRequest), send.finish(): 502 when
\* any of them fails.
ReqOpen ==
    /\ req.pc = "open"
    /\ LET s == OpenOn(registry, req) IN
       req' = IF conn[s].link = "closed"
              THEN [req EXCEPT !.pc = "done", !.status = 502]
              ELSE [req EXCEPT !.pc = "await", !.stream = s]
    /\ UNCHANGED <<registry, now, conn, cleanupDue, Config>>

\* The agent forwards the request to a healthy origin and sends the HttpResponse;
\* the proxy answers with the origin's status.
ReqResponse ==
    /\ req.pc = "await"
    /\ AgentServing(req.stream)
    /\ req.origin = "healthy"
    /\ req' = [req EXCEPT !.pc = "done", !.status = 200]
    /\ UNCHANGED <<registry, now, conn, cleanupDue, Config>>

\* recv_message fails on the substream: Ok(Err(_)) => 502
ReqTransportError ==
    /\ req.pc = "await"
    /\ conn[req.stream].link = "closed"
    /\ req' = [req EXCEPT !.pc = "done", !.status = 502]
    /\ UNCHANGED <<registry, now, conn, cleanupDue, Config>>

\* No reply within request_timeout: Err(_) => 504. No reply comes in time when
\* the agent is gone or the origin is slower than request_timeout.
ReqTimeout ==
    /\ req.pc = "await"
    /\ \/ conn[req.stream].link = "lost"
       \/ AgentServing(req.stream) /\ req.origin = "slow"
    /\ req' = [req EXCEPT !.pc = "done", !.status = 504]
    /\ UNCHANGED <<registry, now, conn, cleanupDue, Config>>

\* The steps of one handle_connection task after its first message.
Handler(c) ==
    \/ CountCheck(c)
    \/ RegisterStep(c)
    \/ ReconnectStep(c)
    \/ SendRegistered(c)
    \/ ServeEnd(c)
    \/ UnregisterStep(c)
    \/ Forget(c)

Request ==
    \/ \E id \in UsedIds, origin \in {"healthy", "slow"} : ReqGet(id, origin)
    \/ ReqOpen
    \/ ReqResponse
    \/ ReqTransportError
    \/ ReqTimeout

Next ==
    \/ \E c \in Conns, id \in Ids, key_ok \in BOOLEAN, has_ticket \in BOOLEAN :
            Accept(c, HandshakeKind(has_ticket), id, key_ok)
    \/ \E c \in Conns, id \in Ids : Accept(c, "Other", id, TRUE)
    \/ \E c \in Conns : Handler(c)
    \/ \E c \in Conns : Lose(c)
    \/ \E c \in Conns : Close(c)
    \/ Cleanup
    \/ Tick
    \/ Request

Spec == Init /\ [][Next]_vars

\* ------------------------------------ SpecHandshake: the handlers alone
HsInit == ServerInit(1..HsConns, 1..HsLimit)

HsNext ==
    \/ \E c \in 1..HsConns, id \in 1..HsIds, key_ok \in BOOLEAN, has_ticket \in BOOLEAN :
            Accept(c, HandshakeKind(has_ticket), id, key_ok)
    \/ \E c \in 1..HsConns, id \in 1..HsIds : Accept(c, "Other", id, TRUE)
    \/ \E c \in 1..HsConns : Handler(c)
    \/ \E c \in 1..HsConns : Die(c)

SpecHandshake == HsInit /\ [][HsNext]_vars

\* ------- SpecDuplicate: two Register handshakes for one id, both read
\* Transports 1 and 2 carry the two agents of workstation 1: the server has read
\* both Register messages (correct API key) and answered neither. The registry is
\* empty. The other transports belong to agents of other workstations.
Racer(id) ==
    [pc |-> "count", link |-> "up", kind |-> "Register", id |-> id, reply |-> "none"]

DupInit ==
    /\ grace_period = Grace
    /\ max_workstations \in 1..DupLimit
    /\ registry = {}
    /\ now = 0
    /\ last = NoCall
    /\ conn = [c \in 1..(2 + DupOthers) |-> IF c <= 2 THEN Racer(1) ELSE FreeConn]
    /\ cleanupDue = 0
    /\ req = NoReq
    /\ exch = NoExch
    /\ agent = NoAgent
    /\ RestIdle

DupRacer(c) ==
    \/ CountCheck(c)
    \/ RegisterStep(c)
    \/ SendRegistered(c)
    \/ ServeEnd(c)
    \/ UnregisterStep(c)

DupNext ==
    \/ \E c \in 1..2 : DupRacer(c)
    \/ \E c \in 3..(2 + DupOthers), id \in 2..DupIds, has_ticket \in BOOLEAN :
            Accept(c, HandshakeKind(has_ticket), id, TRUE)
    \/ \E c \in 3..(2 + DupOthers) : Handler(c)
    \/ \E c \in 1..(2 + DupOthers) : Die(c)

SpecDuplicate == DupInit /\ [][DupNext]_vars

\* --------------- SpecRestart: agents without a ticket file, restarted
RsInit == ServerInit(1..RsConns, 1..RsLimit)

\* Every handshake is a Register: the Reconnect branch is never entered.
RsHandler(c) ==
    \/ CountCheck(c)
    \/ RegisterStep(c)
    \/ SendRegistered(c)
    \/ ServeEnd(c)
    \/ UnregisterStep(c)
    \/ Forget(c)

RsNext ==
    \/ \E c \in 1..RsConns, id \in 1..RsIds : Accept(c, HandshakeKind(FALSE), id, TRUE)
    \/ \E c \in 1..RsConns : RsHandler(c)
    \/ \E c \in 1..RsConns : Lose(c)
    \/ \E c \in 1..RsConns : Close(c)
    \/ Request

SpecRestart == RsInit /\ [][RsNext]_vars

\* ------------------------------- SpecReconnect: keys, kinds and the clock
\* The server is running. The registry is empty, or it holds the entry of a
\* workstation that had reattached with Reconnect and whose transport (handle 0)
\* has just died: that handler called mark_reconnecting and returned.
RcInit ==
    /\ grace_period = Grace
    /\ max_workstations \in 1..RcLimit
    /\ registry \in {{}, {WorkstationInfo(1, 0, Reconnecting(0))}}
    /\ now = 0
    /\ last = NoCall
    /\ conn = [c \in 1..RcConns |-> FreeConn]
    /\ cleanupDue = 0
    /\ req = NoReq
    /\ exch = NoExch
    /\ agent = NoAgent
    /\ RestIdle

RcNext ==
    \/ \E c \in 1..RcConns, id \in 1..RcIds, key_ok \in BOOLEAN, has_ticket \in BOOLEAN :
            Accept(c, HandshakeKind(has_ticket), id, key_ok)
    \/ \E c \in 1..RcConns : Handler(c)
    \/ \E c \in 1..RcConns : Die(c)
    \/ Cleanup
    \/ Tick

SpecReconnect == RcInit /\ [][RcNext]_vars

\* ------------- SpecTicketLive: an agent started with a session ticket file
\* The agent has reconnect enabled and the right key: TunnelClient::run calls
\* Connection::connect again after every failure, and connect sends Reconnect
\* every time because session_ticket, read once in Connection::new, is Some.
\* The server holds no entry for the id (it was restarted, or the entry was
\* removed), or an entry that is Reconnecting. The handler tasks are scheduled.
TkInit ==
    /\ grace_period = Grace
    /\ max_workstations = 1
    /\ registry \in {{}, {WorkstationInfo(1, 0, Reconnecting(0))}}
    /\ now = 0
    /\ last = NoCall
    /\ conn = [c \in 1..TkConns |-> FreeConn]
    /\ cleanupDue = 0
    /\ req = NoReq
    /\ exch = NoExch
    /\ agent = NoAgent
    /\ RestIdle

TkHandler(c) ==
    \/ ReconnectStep(c)
    \/ SendRegistered(c)
    \/ ServeEnd(c)
    \/ Forget(c)

TkConnect == \E c \in 1..TkConns : Accept(c, "Reconnect", 1, TRUE)

TkNext ==
    \/ TkConnect
    \/ \E c \in 1..TkConns : TkHandler(c)
    \/ \E c \in 1..TkConns : Die(c)
    \/ Cleanup
    \/ Tick

SpecTicketLive ==
    /\ TkInit /\ [][TkNext]_vars
    /\ \A c \in 1..TkConns : WF_vars(TkHandler(c))
    /\ WF_vars(TkConnect)

\* --------------- SpecInFlight: a unary request while the agent reattaches
\* One workstation id; its agent registers, loses transports and reattaches with
\* Reconnect while the proxy serves unary requests for it.
IfInit == ServerInit(1..IfConns, {1})

IfNext ==
    \/ \E c \in 1..IfConns, has_ticket \in BOOLEAN :
            Accept(c, HandshakeKind(has_ticket), 1, TRUE)
    \/ \E c \in 1..IfConns : Handler(c)
    \/ \E c \in 1..IfConns : Lose(c)
    \/ \E c \in 1..IfConns : Close(c)
    \/ Request

SpecInFlight == IfInit /\ [][IfNext]_vars

\* ------------- SpecFraming: the first frame of the handshake substream
\* The agents of one workstation id open transports; the first frame is a
\* Register or a Reconnect with the right key, a frame that cannot be read, or a
\* message of another variant.
FrInit == ServerInit(1..FrConns, {1})

FrNext ==
    \/ \E c \in 1..FrConns, kind \in {"Register", "Reconnect", "Unreadable", "Other"} :
            Accept(c, kind, 1, TRUE)
    \/ \E c \in 1..FrConns : Handler(c)
    \/ \E c \in 1..FrConns : Die(c)

SpecFraming == FrInit /\ [][FrNext]_vars

\* The same with handler tasks that the runtime keeps scheduling: each handler
\* that can take a step eventually takes one. Nothing makes an agent connect or die.
SpecFramingLive == SpecFraming /\ \A c \in 1..FrConns : WF_vars(Handler(c))

\* ----------- SpecStale: a reattachment that overtakes the old handler
\* The agent of id 1 was registered on transport 1 (with Register or Reconnect)
\* and that transport has died; its handler, still in
\* handle_workstation_messages, has not run since. From here the agent opens
\* transport 2 and sends Reconnect; nothing dies any more and no other agent
\* connects, while the handlers run and external requests arrive.
StInit ==
    /\ grace_period = Grace
    /\ max_workstations = 1
    /\ registry = {WorkstationInfo(1, 1, Active)}
    /\ now = 0
    /\ last = NoCall
    /\ conn \in {<<[pc |-> "serve", link |-> "closed", kind |-> kind, id |-> 1,
                    reply |-> "Registered"], FreeConn>> : kind \in {"Register", "Reconnect"}}
    /\ cleanupDue = 0
    /\ req = NoReq
    /\ exch = NoExch
    /\ agent = NoAgent
    /\ RestIdle

StNext ==
    \/ Accept(2, "Reconnect", 1, TRUE)
    \/ \E c \in 1..2 : ReconnectStep(c)
    \/ \E c \in 1..2 : SendRegistered(c)
    \/ \E c \in 1..2 : ServeEnd(c)
    \/ \E c \in 1..2 : UnregisterStep(c)
    \/ \E origin \in {"healthy", "slow"} : ReqGet(1, origin)
    \/ ReqOpen
    \/ ReqResponse
    \/ ReqTimeout

SpecStale == StInit /\ [][StNext]_vars

\* ------------------------------------------ SpecProxy: one proxied exchange
\* exch follows one external request to /t/<id>/<path> through the public
\* proxy (tunnel-server proxy.rs), the substream it opens and the worker that
\* answers on it (tunnel-client client.rs and proxy.rs, or any other peer):
\*   path    "unary", "sse" (Accept contains text/event-stream) or "ws" (upgrade);
\*   peer    "client" when the registered agent is the tunnel client, "other"
\*           when it is any program that completed the handshake;
\*   origin  how the local origin treats the agent's call: "ok" (it answers
\*           with status origin_status), "refused" (the call fails) or "slow"
\*           (no answer within request_timeout);
\*   link    the registered transport, as conn[c].link;
\*   sent    the message written on the substream, "none" before that;
\*   first   what the proxy reads first on the substream;
\*   out     the outcome the external client sees.
NoReply == [type |-> "none"]
NoOutcome == [kind |-> "none", status |-> 0]
Finished == [type |-> "Finished"]
HttpResponse(status, headers_ok, body_ok) ==
    [type |-> "HttpResponse", status |-> status, headers_ok |-> headers_ok,
     body_ok |-> body_ok]
SseHeaders(status, headers_ok) ==
    [type |-> "SseHeaders", status |-> status, headers_ok |-> headers_ok]
SseClose(error) == [type |-> "SseClose", error |-> error]
WsData == [type |-> "WsData"]

\* The u16 status values a peer may put in HttpResponse or SseHeaders: the ends
\* of the range http::StatusCode accepts, the values next to them, and some
\* inside.
PeerStatuses == {99, 100, 200, 500, 999, 1000}

\* The statuses an origin answers with, read by reqwest (always a valid status).
OriginStatuses == {200, 404, 500}

\* Every first reply a peer can produce on the substream.
PeerReplies ==
    {HttpResponse(st, h, b) : st \in PeerStatuses, h \in BOOLEAN, b \in BOOLEAN}
    \cup {SseHeaders(st, h) : st \in PeerStatuses, h \in BOOLEAN}
    \cup {SseClose(e) : e \in BOOLEAN}
    \cup {WsData, Finished}

\* Outcomes: an HTTP status made by the proxy itself, the agent's response
\* relayed, a streaming response, a completed upgrade, or a panic of the handler
\* (the external client gets no response at all).
Status(n) == [kind |-> "status", status |-> n]
Relayed(n) == [kind |-> "relayed", status |-> n]
Streaming(n) == [kind |-> "streaming", status |-> n]
Upgraded == [kind |-> "upgraded", status |-> 101]
Panic == [kind |-> "panic", status |-> 0]

\* Response::builder().status(u16): StatusCode::from_u16 accepts 100..=999; any
\* other value, or a header that is no valid header, leaves an error in the
\* builder, and builder.body(..).unwrap() then panics.
ValidStatus(status) == status >= 100 /\ status <= 999
BuilderOk(m) == ValidStatus(m.status) /\ m.headers_ok

\* handle_http_proxy, from the match on the first reply to the end.
UnaryOutcome(m) ==
    IF m.type = "HttpResponse"
    THEN IF ~m.body_ok THEN Status(500)
         ELSE IF ~BuilderOk(m) THEN Panic
         ELSE Relayed(m.status)
    ELSE IF m.type = "Finished" THEN Status(502)
    ELSE Status(500)

\* handle_sse_proxy, from the match on the first reply to the end.
SseOutcome(m) ==
    IF m.type = "SseHeaders"
    THEN IF ~BuilderOk(m) THEN Panic ELSE Streaming(m.status)
    ELSE IF m.type = "SseClose"
    THEN IF m.error THEN Status(502) ELSE Status(204)
    ELSE IF m.type = "Finished" THEN Status(502)
    ELSE Status(500)

\* The message the proxy writes on the substream it opened.
OpenMessage(path) ==
    IF path = "unary" THEN "HttpRequest" ELSE IF path = "sse" THEN "SseOpen" ELSE "WsOpen"

\* TunnelClient::handle_messages, the worker spawned per substream, with
\* LocalProxy::handle_message: the worker answers an HttpRequest with the
\* origin's HttpResponse, or drops the substream without a message when the call
\* to the origin fails; every message that is neither HttpRequest nor WsOpen
\* falls to `_ => {}` and the substream is dropped. A dropped SendStream is
\* finished, so the proxy's read ends with FinishedEarly.
WorkerHandles(sent) == sent \in {"HttpRequest", "WsOpen"}
WorkerReply(sent, origin, origin_status) ==
    IF sent = "HttpRequest" /\ origin = "ok"
    THEN HttpResponse(origin_status, TRUE, TRUE)
    ELSE Finished

PxInit ==
    /\ grace_period = Grace
    /\ max_workstations = MaxLimit
    /\ registry \in {{}} \cup {{WorkstationInfo(1, 1, st)} : st \in {Active, Reconnecting(0)}}
    /\ now = 0
    /\ last = NoCall
    /\ conn = <<>>
    /\ cleanupDue = 0
    /\ req = NoReq
    /\ exch = NoExch
    /\ agent = NoAgent
    /\ RestIdle

PxUnchanged ==
    UNCHANGED <<registry, grace_period, max_workstations, now, last, conn, cleanupDue,
                req, agent, Rest>>

\* An external request arrives at handle_http_proxy.
PxRequest(path, id, peer, origin, origin_status, link) ==
    /\ exch.pc \in {"idle", "done"}
    /\ exch' = [pc |-> "get", path |-> path, id |-> id, peer |-> peer,
                origin |-> origin, origin_status |-> origin_status, link |-> link,
                sent |-> "none", first |-> NoReply, out |-> NoOutcome]
    /\ PxUnchanged

\* registry.get(id).ok_or(NOT_FOUND), the first step on each of the three paths;
\* on the WebSocket path the upgrade response follows a successful lookup.
\* Faulty variant: an absent id is not turned away.
NotFound_Never(ws, id) == FALSE
NotFound(ws, id) == get(ws, id) = None

PxGet ==
    /\ exch.pc = "get"
    /\ exch' = IF NotFound(registry, exch.id)
               THEN [exch EXCEPT !.pc = "done", !.out = Status(404)]
               ELSE IF exch.path = "ws"
               THEN [exch EXCEPT !.pc = "open", !.out = Upgraded]
               ELSE [exch EXCEPT !.pc = "open"]
    /\ PxUnchanged

\* open_bi and send_message (and send.finish on the unary path): 502 when one of
\* them fails; handle_websocket_connection just returns.
PxOpen ==
    /\ exch.pc = "open"
    /\ exch' = IF exch.link = "closed"
               THEN IF exch.path = "ws"
                    THEN [exch EXCEPT !.pc = "done"]
                    ELSE [exch EXCEPT !.pc = "done", !.out = Status(502)]
               ELSE IF exch.path = "ws"
               THEN [exch EXCEPT !.pc = "done", !.sent = OpenMessage(exch.path)]
               ELSE [exch EXCEPT !.pc = "await", !.sent = OpenMessage(exch.path)]
    /\ PxUnchanged

\* The tunnel client's worker reads the message and answers, or drops the
\* substream; with a slow origin it is still waiting.
PxWorker ==
    /\ exch.pc = "await"
    /\ exch.peer = "client"
    /\ exch.link = "up"
    /\ exch.first = NoReply
    /\ ~(WorkerHandles(exch.sent) /\ exch.origin = "slow")
    /\ exch' = [exch EXCEPT !.first = WorkerReply(exch.sent, exch.origin, exch.origin_status)]
    /\ PxUnchanged

\* Another peer answers with a message of its choice, or ends the substream.
PxPeerReply(m) ==
    /\ exch.pc = "await"
    /\ exch.peer = "other"
    /\ exch.link = "up"
    /\ exch.first = NoReply
    /\ exch' = [exch EXCEPT !.first = m]
    /\ PxUnchanged

\* timeout(request_timeout, recv_message): Ok(Ok(message)) and Ok(Err(_)) for a
\* substream that ended early.
PxFirstReply ==
    /\ exch.pc = "await"
    /\ exch.first # NoReply
    /\ exch' = [exch EXCEPT !.pc = "done",
                            !.out = IF exch.path = "unary" THEN UnaryOutcome(exch.first)
                                    ELSE SseOutcome(exch.first)]
    /\ PxUnchanged

\* timeout(request_timeout, recv_message): Ok(Err(_)) when the connection is
\* closed: 502.
PxConnectionError ==
    /\ exch.pc = "await"
    /\ exch.first = NoReply
    /\ exch.link = "closed"
    /\ exch' = [exch EXCEPT !.pc = "done", !.out = Status(502)]
    /\ PxUnchanged

\* timeout(request_timeout, recv_message): Err(_) => 504, when nothing arrived in
\* time: the agent is gone unnoticed, the origin is slow, or the peer is silent.
PxTimeout ==
    /\ exch.pc = "await"
    /\ exch.first = NoReply
    /\ \/ exch.link = "lost"
       \/ exch.link = "up" /\ exch.peer = "other"
       \/ exch.link = "up" /\ exch.peer = "client"
            /\ WorkerHandles(exch.sent) /\ exch.origin = "slow"
    /\ exch' = [exch EXCEPT !.pc = "done", !.out = Status(504)]
    /\ PxUnchanged

\* The registered transport closes while the exchange is under way.
PxBreak ==
    /\ exch.pc \in {"open", "await"}
    /\ exch.link # "closed"
    /\ exch' = [exch EXCEPT !.link = "closed"]
    /\ PxUnchanged

PxNext ==
    \/ \E path \in {"unary", "sse", "ws"}, id \in Ids, peer \in {"client", "other"},
          origin \in {"ok", "refused", "slow"}, st \in OriginStatuses,
          link \in {"up", "lost", "closed"} :
          PxRequest(path, id, peer, origin, st, link)
    \/ PxGet
    \/ PxOpen
    \/ PxWorker
    \/ \E m \in PeerReplies : PxPeerReply(m)
    \/ PxFirstReply
    \/ PxConnectionError
    \/ PxTimeout
    \/ PxBreak

SpecProxy == PxInit /\ [][PxNext]_vars

\* ------------------------------------------- SpecAgent: the agent process
\* agent follows TunnelClient::run (tunnel-client client.rs) and its
\* ReconnectStrategy (reconnect.rs):
\*   pc         "connect" (in Connection::connect), "serve" (in the select! of
\*              connect_and_serve), "ended" (connect_and_serve returned),
\*              "sleep" (in wait_before_retry), "exited" (run returned),
\*              "panicked" (run unwound);
\*   enabled    config.reconnect.enabled: the strategy exists;
\*   max_delay  config.reconnect.max_delay, in seconds;
\*   attempt    ReconnectStrategy::attempt, a u32 (see U32 below);
\*   delay      the Duration of the last sleep, in milliseconds;
\*   waits      how many waits were made since the last successful handshake (or
\*              since the process started), counted without a width.
\* Durations are in milliseconds.
Min(a, b) == IF a <= b THEN a ELSE b

\* A u32 is kept as its two 16-bit halves, hi * 2^16 + lo, so that the whole
\* range of the counter is within the checker's integers. The count of waits
\* uses the same form with no limit on hi.
Half == 2 ^ 16
U32(hi, lo) == [hi |-> hi, lo |-> lo]
FromNat(n) == U32(n \div Half, n % Half)
Zero == U32(0, 0)
U32Max == U32(Half - 1, Half - 1)
Succ(v) == IF v.lo < Half - 1 THEN U32(v.hi, v.lo + 1) ELSE U32(v.hi + 1, 0)
Pred(v) == IF v.lo > 0 THEN U32(v.hi, v.lo - 1) ELSE U32(v.hi - 1, Half - 1)
Less(v, w) == v.hi < w.hi \/ (v.hi = w.hi /\ v.lo < w.lo)

\* u32::saturating_sub(1)
saturating_sub(v) == IF v = Zero THEN Zero ELSE Pred(v)

\* u32::min(n), n below 2^16, as a number
min(v, n) == IF v.hi > 0 THEN n ELSE Min(v.lo, n)

\* A computed delay: its milliseconds, or the overflow of the u32 arithmetic that
\* computes it (a panic when the build checks overflow, a wrapped value otherwise).
Duration(ms) == [overflow |-> FALSE, ms |-> ms]
Overflow == [overflow |-> TRUE, ms |-> 0]

\* 2u32.pow(e) fits a u32
PowFits(e) == e < 32

\* ReconnectStrategy::calculate_delay
\* Faulty variant: the exponent is not capped.
calculate_delay_NoCap(attempt, max_delay) ==
    LET e == saturating_sub(attempt)
    IN  IF e.hi > 0 \/ ~PowFits(e.lo) THEN Overflow
        ELSE Duration(Min(BaseDelayMs * 2 ^ e.lo, max_delay * 1000))
calculate_delay(attempt, max_delay) ==
    LET e == min(saturating_sub(attempt), MaxExponent)
    IN  IF ~PowFits(e) THEN Overflow
        ELSE Duration(Min(BaseDelayMs * 2 ^ e, max_delay * 1000))

\* self.attempt += 1 on a u32: the sum, or at u32::MAX a panic when the build
\* checks overflow and 0 when it wraps.
Increments(attempt) ==
    IF attempt # U32Max THEN {[panic |-> FALSE, value |-> Succ(attempt)]}
    ELSE {[panic |-> FALSE, value |-> Zero], [panic |-> TRUE, value |-> attempt]}

\* ReconnectStrategy::reset
reset(attempt) == Zero

\* The last values of the counter.
NearMax == {U32(Half - 1, lo) : lo \in (Half - 1 - AgentMargin)..(Half - 1)}

\* The process just started (fails = 0), or it has made `fails` consecutive
\* attempts that all failed and is about to make the next one.
AgentStart(enabled, max_delay, fails) ==
    [pc |-> "connect", enabled |-> enabled, max_delay |-> max_delay,
     attempt |-> IF enabled THEN fails ELSE Zero, delay |-> 0, waits |-> fails]

AgentInit ==
    /\ grace_period = Grace
    /\ max_workstations = MaxLimit
    /\ registry = {}
    /\ now = 0
    /\ last = NoCall
    /\ conn = <<>>
    /\ cleanupDue = 0
    /\ req = NoReq
    /\ exch = NoExch
    /\ RestIdle
    /\ \E max_delay \in 0..AgentMaxDelay :
          \/ agent = AgentStart(FALSE, max_delay, Zero)
          \/ \E fails \in {Zero, U32(Half - 1, Half - 1 - AgentMargin)} :
                agent = AgentStart(TRUE, max_delay, fails)

AgentUnchanged ==
    UNCHANGED <<registry, grace_period, max_workstations, now, last, conn, cleanupDue,
                req, exch, Rest>>

\* connect_and_serve: self.connection.connect().await? returns Ok; the strategy,
\* when there is one, is reset.
ConnectOk ==
    /\ agent.pc = "connect"
    /\ agent' = [agent EXCEPT !.pc = "serve",
                              !.attempt = IF agent.enabled THEN reset(agent.attempt)
                                          ELSE agent.attempt,
                              !.waits = Zero]
    /\ AgentUnchanged

\* connect_and_serve: connect() returns Err (no address, no connection, an Error
\* answer). Runs of failures are followed for AgentMaxWaits waits from a start.
ConnectErr ==
    /\ agent.pc = "connect"
    /\ Less(agent.attempt, FromNat(AgentMaxWaits)) \/ agent.attempt \in NearMax
    /\ agent' = [agent EXCEPT !.pc = "ended"]
    /\ AgentUnchanged

\* connect_and_serve: the ping task or the message task ends: the connection is
\* lost.
ConnectionLost ==
    /\ agent.pc = "serve"
    /\ agent' = [agent EXCEPT !.pc = "ended"]
    /\ AgentUnchanged

\* run: if let Some(strategy) = self.reconnect { strategy.wait_before_retry() }:
\* the counter is incremented, then the delay computed and slept.
WaitBeforeRetry ==
    /\ agent.pc = "ended"
    /\ agent.enabled
    /\ \E a \in Increments(agent.attempt) :
          LET d == calculate_delay(a.value, agent.max_delay) IN
          agent' = IF a.panic \/ d.overflow
                   THEN [agent EXCEPT !.pc = "panicked", !.waits = Succ(agent.waits)]
                   ELSE [agent EXCEPT !.pc = "sleep", !.attempt = a.value,
                                      !.delay = d.ms,
                                      !.waits = Succ(agent.waits)]
    /\ AgentUnchanged

\* run: else { break }
Exit ==
    /\ agent.pc = "ended"
    /\ ~agent.enabled
    /\ agent' = [agent EXCEPT !.pc = "exited"]
    /\ AgentUnchanged

\* wait_before_retry: sleep(delay) is over; run loops.
Retry ==
    /\ agent.pc = "sleep"
    /\ agent' = [agent EXCEPT !.pc = "connect"]
    /\ AgentUnchanged

AgentNext ==
    \/ ConnectOk
    \/ ConnectErr
    \/ ConnectionLost
    \/ WaitBeforeRetry
    \/ Exit
    \/ Retry

SpecAgent == AgentInit /\ [][AgentNext]_vars

\* ------------------------------------------------ SpecWs: a WebSocket relay
\* codec::encode_body and codec::decode_body: base64, STANDARD engine. Bytes are
\* 0..255, the encoded text a sequence of sextets 0..63 with Pad for '='.
Pad == 64

Enc3(b) ==
    IF Len(b) = 1 THEN <<b[1] \div 4, (b[1] % 4) * 16, Pad, Pad>>
    ELSE IF Len(b) = 2
    THEN <<b[1] \div 4, (b[1] % 4) * 16 + b[2] \div 16, (b[2] % 16) * 4, Pad>>
    ELSE <<b[1] \div 4, (b[1] % 4) * 16 + b[2] \div 16, (b[2] % 16) * 4 + b[3] \div 64,
           b[3] % 64>>

RECURSIVE encode_body(_)
encode_body(data) ==
    IF Len(data) = 0 THEN <<>>
    ELSE IF Len(data) <= 3 THEN Enc3(data)
    ELSE Enc3(SubSeq(data, 1, 3)) \o encode_body(SubSeq(data, 4, Len(data)))

\* One quad of sextets decoded: its bytes, or an error (padding inside the
\* quad, or trailing bits that are not zero).
Dec4(q, is_last) ==
    IF q[1] = Pad \/ q[2] = Pad THEN [ok |-> FALSE, bytes |-> <<>>]
    ELSE IF q[3] = Pad
    THEN [ok |-> is_last /\ q[4] = Pad /\ q[2] % 16 = 0,
          bytes |-> <<q[1] * 4 + q[2] \div 16>>]
    ELSE IF q[4] = Pad
    THEN [ok |-> is_last /\ q[3] % 4 = 0,
          bytes |-> <<q[1] * 4 + q[2] \div 16, (q[2] % 16) * 16 + q[3] \div 4>>]
    ELSE [ok |-> TRUE,
          bytes |-> <<q[1] * 4 + q[2] \div 16, (q[2] % 16) * 16 + q[3] \div 4,
                      (q[3] % 4) * 64 + q[4]>>]

RECURSIVE decode_body(_)
decode_body(encoded) ==
    IF Len(encoded) = 0 THEN [ok |-> TRUE, bytes |-> <<>>]
    ELSE IF Len(encoded) < 4 THEN [ok |-> FALSE, bytes |-> <<>>]
    ELSE LET head == Dec4(SubSeq(encoded, 1, 4), Len(encoded) = 4)
             rest == decode_body(SubSeq(encoded, 5, Len(encoded)))
         IN  [ok |-> head.ok /\ rest.ok, bytes |-> head.bytes \o rest.bytes]

\* String::from_utf8 accepts the bytes. The payloads used here are ASCII or hold
\* the byte 255, which no UTF-8 text contains.
from_utf8_ok(bytes) == \A i \in 1..Len(bytes) : bytes[i] < 128

\* WebSocket frames as the sockets deliver them: Text and Binary, the control
\* frames Ping and Close, a read error, and the end of the stream (None).
Text(p) == [t |-> "Text", p |-> p]
Binary(p) == [t |-> "Binary", p |-> p]
PingFrame == [t |-> "Ping", p |-> <<>>]
CloseFrame == [t |-> "Close", p |-> <<>>]
ReadError == [t |-> "Error", p |-> <<>>]
StreamEnd == [t |-> "End", p |-> <<>>]

\* The frames a peer sends in the model.
DataFrames == {Text(<<72, 105>>), Binary(<<255>>)}

\* Message::WsData and Message::WsClose on the relay's substream.
WsDataMessage(data, is_binary) == [type |-> "WsData", data |-> data, is_binary |-> is_binary]
WsCloseMessage == [type |-> "WsClose", data |-> <<>>, is_binary |-> FALSE]

\* A Text or Binary frame as the WsData sent for it.
\* Faulty variant: every frame is sent as text.
ToWsData_AlwaysText(frame) == WsDataMessage(encode_body(frame.p), FALSE)
ToWsData(frame) == WsDataMessage(encode_body(frame.p), frame.t = "Binary")

\* What a received WsData is forwarded as: a frame, or nothing when the body does
\* not decode or a text body is not UTF-8 (the loop goes on).
FromWsData(m) ==
    LET decoded == decode_body(m.data) IN
    IF ~decoded.ok THEN <<>>
    ELSE IF m.is_binary THEN <<Binary(decoded.bytes)>>
    ELSE IF from_utf8_ok(decoded.bytes) THEN <<Text(decoded.bytes)>>
    ELSE <<>>

\* relay, in SpecWs:
\*   client, origin   the external client and the local origin: "open", "closing"
\*                    (it sent Close) or "gone" (its socket ended);
\*   in_c, in_o       frames written by the client (the origin) that the server
\*                    (the agent) has not read yet;
\*   down, up         messages on the substream, server to agent and agent to
\*                    server, not read yet; fin_down, fin_up: the sending side was
\*                    finished or dropped;
\*   c2t, t2c         the server's client_to_tunnel_task and tunnel_to_client_task,
\*   w2t, t2w         the agent's ws_to_tunnel_task and tunnel_to_ws_task:
\*                    "run" or "ended";
\*   sent_c, sent_o   the Text and Binary frames the client (the origin) sent;
\*   out_o, out_c     the frames delivered to the origin (to the client).
WsInit ==
    /\ grace_period = Grace
    /\ max_workstations = MaxLimit
    /\ registry = {}
    /\ now = 0
    /\ last = NoCall
    /\ conn = <<>>
    /\ cleanupDue = 0
    /\ req = NoReq
    /\ exch = NoExch
    /\ agent = NoAgent
    /\ pending = NoPending
    /\ call = NoFn
    /\ relay = [pc |-> "ws", client |-> "open", origin |-> "open",
                in_c |-> <<>>, in_o |-> <<>>, down |-> <<>>, up |-> <<>>,
                fin_down |-> FALSE, fin_up |-> FALSE,
                c2t |-> "run", t2c |-> "run", w2t |-> "run", t2w |-> "run",
                sent_c |-> <<>>, sent_o |-> <<>>, out_o |-> <<>>, out_c |-> <<>>]

WsUnchanged ==
    UNCHANGED <<registry, grace_period, max_workstations, now, last, conn, cleanupDue,
                req, exch, agent, pending, call>>

\* The peer after it wrote frame f.
After(f) == IF f.t = "Close" THEN "closing" ELSE IF f.t \in {"End", "Error"} THEN "gone"
            ELSE "open"

\* The external client writes a frame, or its socket ends or fails.
ClientSends(f) ==
    /\ relay.client = "open"
    /\ f \in DataFrames => Len(relay.sent_c) < MaxFrames
    /\ f = PingFrame => relay.in_c = <<>> /\ relay.sent_c = <<>>
    /\ relay' = [relay EXCEPT
            !.in_c = IF f = ReadError THEN @ \o <<f, StreamEnd>> ELSE Append(@, f),
            !.sent_c = IF f \in DataFrames THEN Append(@, f) ELSE @,
            !.client = After(f)]
    /\ WsUnchanged

\* The origin writes a frame, or its socket ends or fails.
OriginSends(f) ==
    /\ relay.origin = "open"
    /\ f \in DataFrames => Len(relay.sent_o) < MaxFrames
    /\ f = PingFrame => relay.in_o = <<>> /\ relay.sent_o = <<>>
    /\ relay' = [relay EXCEPT
            !.in_o = IF f = ReadError THEN @ \o <<f, StreamEnd>> ELSE Append(@, f),
            !.sent_o = IF f \in DataFrames THEN Append(@, f) ELSE @,
            !.origin = After(f)]
    /\ WsUnchanged

\* Server, client_to_tunnel_task: one turn of while let Some(msg) =
\* client_receiver.next().await. send_message fails once the agent has dropped
\* its receiving half; when the task ends its quic_send is dropped, which
\* finishes the sending side.
client_to_tunnel_task ==
    /\ relay.c2t = "run"
    /\ relay.in_c # <<>>
    /\ LET f == Head(relay.in_c)
           r == [relay EXCEPT !.in_c = Tail(@)]
           ended == [r EXCEPT !.c2t = "ended", !.fin_down = TRUE]
       IN  relay' =
              IF f.t \in {"Text", "Binary"}
              THEN IF relay.t2w = "ended" THEN ended
                   ELSE [r EXCEPT !.down = Append(@, ToWsData(f))]
              ELSE IF f.t = "Close"
              THEN IF relay.t2w = "ended" THEN ended
                   ELSE [ended EXCEPT !.down = Append(@, WsCloseMessage)]
              ELSE IF f.t = "End" THEN ended
              ELSE r
    /\ WsUnchanged

\* Agent, ws_to_tunnel_task: the same loop, with Err(_) => break.
ws_to_tunnel_task ==
    /\ relay.w2t = "run"
    /\ relay.in_o # <<>>
    /\ LET f == Head(relay.in_o)
           r == [relay EXCEPT !.in_o = Tail(@)]
           ended == [r EXCEPT !.w2t = "ended", !.fin_up = TRUE]
       IN  relay' =
              IF f.t \in {"Text", "Binary"}
              THEN IF relay.t2c = "ended" THEN ended
                   ELSE [r EXCEPT !.up = Append(@, ToWsData(f))]
              ELSE IF f.t = "Close"
              THEN IF relay.t2c = "ended" THEN ended
                   ELSE [ended EXCEPT !.up = Append(@, WsCloseMessage)]
              ELSE IF f.t \in {"End", "Error"} THEN ended
              ELSE r
    /\ WsUnchanged

\* Agent, tunnel_to_ws_task: one turn of loop { match recv_message(..) }. The
\* read fails when the stream was finished and nothing is left to read; the send
\* to the origin fails when its socket is gone.
tunnel_to_ws_task ==
    /\ relay.t2w = "run"
    /\ relay.down # <<>> \/ relay.fin_down
    /\ relay' =
          IF relay.down = <<>> THEN [relay EXCEPT !.t2w = "ended"]
          ELSE LET m == Head(relay.down)
                   r == [relay EXCEPT !.down = Tail(@)]
               IN  IF m.type = "WsClose"
                   THEN [r EXCEPT !.t2w = "ended",
                                  !.out_o = IF relay.origin = "gone" THEN @
                                            ELSE Append(@, CloseFrame)]
                   ELSE IF FromWsData(m) = <<>> THEN r
                   ELSE IF relay.origin = "gone" THEN [r EXCEPT !.t2w = "ended"]
                   ELSE [r EXCEPT !.out_o = @ \o FromWsData(m)]
    /\ WsUnchanged

\* Server, tunnel_to_client_task: the same loop towards the external client.
tunnel_to_client_task ==
    /\ relay.t2c = "run"
    /\ relay.up # <<>> \/ relay.fin_up
    /\ relay' =
          IF relay.up = <<>> THEN [relay EXCEPT !.t2c = "ended"]
          ELSE LET m == Head(relay.up)
                   r == [relay EXCEPT !.up = Tail(@)]
               IN  IF m.type = "WsClose"
                   THEN [r EXCEPT !.t2c = "ended",
                                  !.out_c = IF relay.client = "gone" THEN @
                                            ELSE Append(@, CloseFrame)]
                   ELSE IF FromWsData(m) = <<>> THEN r
                   ELSE IF relay.client = "gone" THEN [r EXCEPT !.t2c = "ended"]
                   ELSE [r EXCEPT !.out_c = @ \o FromWsData(m)]
    /\ WsUnchanged

\* The four relay tasks.
RelayTask ==
    \/ client_to_tunnel_task
    \/ ws_to_tunnel_task
    \/ tunnel_to_ws_task
    \/ tunnel_to_client_task

WsNext ==
    \/ \E f \in DataFrames \cup {PingFrame, CloseFrame, ReadError, StreamEnd} : ClientSends(f)
    \/ \E f \in DataFrames \cup {PingFrame, CloseFrame, ReadError, StreamEnd} : OriginSends(f)
    \/ RelayTask

SpecWs == WsInit /\ [][WsNext]_vars

\* ------------------------------------- SpecCodec: frames of the wire codec
\* A length or a count of bytes is kept in the two-halves form of U32 above; a
\* usize has no limit on hi here. call, in SpecCodec, holds the last call:
\*   fn    "encode_message", "decode_message" or "recv_message";
\*   msg   the message passed to encode_message;
\*   data  the bytes produced by encode_message, or passed to decode_message, or
\*         written to the substream that recv_message reads;
\*   res   the result of decode_message or recv_message.
\* Bytes are not kept one by one. A run of bytes is described by
\*   bytes  how many bytes there are, the four bytes of the prefix included;
\*   len    the value of the big-endian prefix (read only when bytes >= 4);
\*   json   the message whose JSON text follows the prefix, cut where the bytes
\*          end.
\* A message is its variant and the length of its JSON text.
Variants ==
    {"Register", "Registered", "Reconnect", "Ping", "Pong", "Error", "HttpRequest",
     "HttpResponse", "WsOpen", "WsData", "WsClose", "SseOpen", "SseHeaders", "SseData",
     "SseClose"}
Msg(variant, size) == [variant |-> variant, size |-> size]
NoMsg == Msg("none", Zero)
Bytes(bytes, len, json) == [bytes |-> bytes, len |-> len, json |-> json]
NoBytes == Bytes(Zero, Zero, NoMsg)

\* v + n and v - n for a small n; v <= w.
Plus(v, n) == U32(v.hi + (v.lo + n) \div Half, (v.lo + n) % Half)
Minus(v, n) == IF v.lo >= n THEN U32(v.hi, v.lo - n) ELSE U32(v.hi - 1, v.lo + Half - n)
AtMost(v, w) == v = w \/ Less(v, w)

\* json.len() as u32
as_u32(v) == U32(v.hi % Half, v.lo)

\* codec::encode_message: serde_json::to_vec, put_u32(len), put_slice(&json)
encode_message(msg) == Bytes(Plus(msg.size, 4), as_u32(msg.size), msg)

\* Results of decode_message and recv_message.
Decoded(msg, consumed) == [ok |-> TRUE, err |-> "none", msg |-> msg, consumed |-> consumed]
Failed(err) == [ok |-> FALSE, err |-> err, msg |-> NoMsg, consumed |-> Zero]
NoResult == Failed("none")

\* serde_json::from_slice on the first len bytes after the prefix: the text of
\* one message and nothing else parses; a cut text, or a text followed by other
\* bytes, does not.
from_slice_ok(data, len) == data.json # NoMsg /\ len = data.json.size

\* codec::decode_message
decode_message(data) ==
    IF Less(data.bytes, FromNat(4)) THEN Failed("insufficient data for length prefix")
    ELSE IF Less(data.bytes, Plus(data.len, 4)) THEN Failed("insufficient data")
    ELSE IF from_slice_ok(data, data.len) THEN Decoded(data.json, Plus(data.len, 4))
    ELSE Failed("parse")

\* quic::recv_message on a substream whose sender wrote data and finished.
recv_message(data) ==
    IF Less(data.bytes, FromNat(4)) THEN Failed("stream closed")
    ELSE IF Less(FromNat(MaxMessageLen), data.len) THEN Failed("message too large")
    ELSE IF Less(data.bytes, Plus(data.len, 4)) THEN Failed("stream closed")
    ELSE IF from_slice_ok(data, data.len) THEN Decoded(data.json, Plus(data.len, 4))
    ELSE Failed("parse")

\* The limit as it is specified, 10 MiB.
TenMiB == 10 * 1024 * 1024

\* The lengths of JSON text tried: small ones, the ones around the limits, and
\* the ones around the range of the prefix.
JsonSizes ==
    {FromNat(SmallJson + k) : k \in 0..CodecSizes}
    \cup {FromNat(MaxMessageLen), FromNat(MaxMessageLen + 1), FromNat(TenMiB),
          FromNat(TenMiB + 1)}
    \cup {U32Max, U32(Half, 0), U32(Half, SmallJson)}

\* What a peer may write: a frame of a message, whole or cut short, or the text
\* of a message behind a prefix of another value.
Written ==
    LET Whole == {encode_message(Msg(v, s)) : v \in Variants, s \in JsonSizes}
    IN  Whole
        \cup {Bytes(FromNat(3), d.len, d.json) : d \in Whole}
        \cup {Bytes(Minus(d.bytes, 1), d.len, d.json) : d \in Whole}
        \cup {Bytes(Plus(d.json.size, 4), d.json.size, d.json) : d \in Whole}

CodecInit ==
    /\ grace_period = Grace
    /\ max_workstations = MaxLimit
    /\ registry = {}
    /\ now = 0
    /\ last = NoCall
    /\ conn = <<>>
    /\ cleanupDue = 0
    /\ req = NoReq
    /\ exch = NoExch
    /\ agent = NoAgent
    /\ relay = NoRelay
    /\ pending = NoPending
    /\ call = [fn |-> "none", msg |-> NoMsg, data |-> NoBytes, res |-> NoResult]

CodecUnchanged ==
    UNCHANGED <<registry, grace_period, max_workstations, now, last, conn, cleanupDue,
                req, exch, agent, relay, pending>>

CallEncode(variant, size) ==
    /\ call' = [fn |-> "encode_message", msg |-> Msg(variant, size),
                data |-> encode_message(Msg(variant, size)), res |-> NoResult]
    /\ CodecUnchanged

\* decode_message on what encode_message returned.
CallDecodeEncoded ==
    /\ call.fn = "encode_message"
    /\ call' = [call EXCEPT !.fn = "decode_message", !.res = decode_message(call.data)]
    /\ CodecUnchanged

CallDecode(data) ==
    /\ call' = [fn |-> "decode_message", msg |-> NoMsg, data |-> data,
                res |-> decode_message(data)]
    /\ CodecUnchanged

CallRecv(data) ==
    /\ call' = [fn |-> "recv_message", msg |-> NoMsg, data |-> data,
                res |-> recv_message(data)]
    /\ CodecUnchanged

CodecNext ==
    \/ \E variant \in Variants, size \in JsonSizes : CallEncode(variant, size)
    \/ CallDecodeEncoded
    \/ \E data \in Written : CallDecode(data)
    \/ \E data \in Written : CallRecv(data)

SpecCodec == CodecInit /\ [][CodecNext]_vars

\* ------- SpecPending, SpecInbound: the pending table, the inbound substreams
\* SpecPending calls the API of the table; SpecInbound runs the inbound loop of a
\* registered transport, with the table as the server keeps it: nothing in the
\* server calls register, so it is empty. pending holds:
\*   requests   PendingRequests.requests: a set of [id, slot], one per key; a
\*              slot is a oneshot channel, numbered in the order of creation;
\*   slots      per slot, what its receiver got and whether the receiver was
\*              dropped;
\*   streams    the inbound substreams accepted by handle_workstation_messages,
\*              in order: the message the agent wrote, whether the agent's
\*              STOP_SENDING for the substream arrives before the server
\*              writes (the agent's ping task drops its receiving half as soon
\*              as the Ping is written: send_bidirectional_message), whether
\*              the spawned task has handled it, and what the server wrote back;
\*   link       the transport: "up" or "closed";
\*   loop       the while let loop: "accepting" or "ended";
\*   last       the last call of the table's API and its result.
StreamIds == 1..PendIds
Timestamps == {1, 2}

InboundMessage(type, stream_id, timestamp) ==
    [type |-> type, stream_id |-> stream_id, timestamp |-> timestamp]
PingMessage(timestamp) == InboundMessage("Ping", 0, timestamp)
PongMessage(timestamp) == InboundMessage("Pong", 0, timestamp)

\* What an agent, or any peer holding the API key, may write on a substream.
InboundMessages ==
    {InboundMessage(type, id, 0) :
        type \in {"HttpResponse", "WsData", "WsClose", "SseClose"}, id \in StreamIds}
    \cup {PingMessage(ts) : ts \in Timestamps}
    \cup {PongMessage(1)}

\* The messages passed to complete in SpecPending.
Responses(id) == {InboundMessage(type, id, 0) : type \in {"HttpResponse", "WsData"}}

Slot(id, slot) == [id |-> id, slot |-> slot]
NoSlot == [rx |-> "none", got |-> <<>>]
FreshSlot == [rx |-> "waiting", got |-> <<>>]

\* HashMap::get on the table: the slot of id, or 0.
SlotOf(requests, id) ==
    IF \E e \in requests : e.id = id THEN (CHOOSE e \in requests : e.id = id).slot ELSE 0

\* PendingRequests::register: requests.insert(stream_id, sender)
pending_register(requests, id, slot) ==
    {e \in requests : e.id # id} \cup {Slot(id, slot)}

\* PendingRequests::complete: requests.remove(&stream_id), then sender.send.
\* slot is the channel the message is sent on, 0 when there was none.
\* Faulty variant: the sender is looked up and the entry stays.
pending_complete_Keep(requests, slots, id) ==
    LET slot == SlotOf(requests, id) IN
    [requests |-> requests, slot |-> slot,
     res |-> slot # 0 /\ slots[slot].rx = "waiting"]
pending_complete(requests, slots, id) ==
    LET slot == SlotOf(requests, id) IN
    [requests |-> {e \in requests : e.id # id}, slot |-> slot,
     res |-> slot # 0 /\ slots[slot].rx = "waiting"]

\* PendingRequests::cancel
pending_cancel(requests, id) == {e \in requests : e.id # id}

\* oneshot::Sender::send: the value reaches a receiver that was not dropped.
Deliver(slots, slot, msg) ==
    IF slot # 0 /\ slots[slot].rx = "waiting"
    THEN [slots EXCEPT ![slot].got = Append(@, msg)]
    ELSE slots

\* handle_workstation_messages, match msg: the three variants passed to
\* complete.
Completes(type) == type \in {"HttpResponse", "WsData", "WsClose"}

\* The table after the spawned task handled msg.
AfterInbound(requests, slots, msg) ==
    IF Completes(msg.type) THEN pending_complete(requests, slots, msg.stream_id).requests
    ELSE requests

\* The accept loop after a spawned task handled msg: the task has no hold on it.
\* Faulty variant: a variant the match does not name ends the loop.
LoopAfter_EndOnUnknown(loop, msg) ==
    IF Completes(msg.type) \/ msg.type = "Ping" THEN loop ELSE "ended"
LoopAfter(loop, msg) == loop

\* Message::Ping(ping) => let _ = send_message(&mut send, &Pong { timestamp:
\* ping.timestamp }): the Pong is written unless the transport is closed or the
\* peer has stopped the substream; nothing is written for any other variant.
Reply(msg, link, stopped) ==
    IF msg.type = "Ping" /\ link = "up" /\ ~stopped
    THEN <<PongMessage(msg.timestamp)>> ELSE <<>>

NoApiCall == [op |-> "none", id |-> 0, res |-> FALSE]

InbInit ==
    /\ grace_period = Grace
    /\ max_workstations = MaxLimit
    /\ registry = {WorkstationInfo(1, 1, Active)}
    /\ now = 0
    /\ last = NoCall
    /\ conn = <<>>
    /\ cleanupDue = 0
    /\ req = NoReq
    /\ exch = NoExch
    /\ agent = NoAgent
    /\ relay = NoRelay
    /\ call = NoFn
    /\ pending = [requests |-> {}, slots |-> <<>>, streams |-> <<>>, link |-> "up",
                  loop |-> "accepting", last |-> NoApiCall]

InbUnchanged ==
    UNCHANGED <<grace_period, max_workstations, now, last, conn, cleanupDue, req, exch,
                agent, relay, call>>

\* pending.register(stream_id, sender) with a new oneshot channel.
PendRegister(id) ==
    /\ Len(pending.slots) < MaxSlots
    /\ LET slot == Len(pending.slots) + 1 IN
       pending' = [pending EXCEPT
            !.requests = pending_register(@, id, slot),
            !.slots = Append(@, FreshSlot),
            !.last = [op |-> "register", id |-> id, res |-> TRUE]]
    /\ UNCHANGED registry /\ InbUnchanged

\* pending.complete(stream_id, response) called directly.
PendComplete(id, msg) ==
    /\ msg.stream_id = id
    /\ LET r == pending_complete(pending.requests, pending.slots, id) IN
       pending' = [pending EXCEPT
            !.requests = r.requests,
            !.slots = Deliver(@, r.slot, msg),
            !.last = [op |-> "complete", id |-> id, res |-> r.res]]
    /\ UNCHANGED registry /\ InbUnchanged

\* pending.cancel(stream_id)
PendCancel(id) ==
    /\ pending' = [pending EXCEPT
            !.requests = pending_cancel(@, id),
            !.last = [op |-> "cancel", id |-> id, res |-> TRUE]]
    /\ UNCHANGED registry /\ InbUnchanged

\* The holder of a receiver gives up (its timeout fired): the receiver is dropped.
DropReceiver(slot) ==
    /\ slot \in DOMAIN pending.slots
    /\ pending.slots[slot].rx = "waiting"
    /\ pending.slots[slot].got = <<>>
    /\ pending' = [pending EXCEPT !.slots[slot].rx = "dropped", !.last = NoApiCall]
    /\ UNCHANGED registry /\ InbUnchanged

\* handle_workstation_messages: connection.accept_bi() returns a substream on
\* which the peer wrote msg; a task is spawned for it.
AcceptInbound(msg, stopped) ==
    /\ pending.loop = "accepting"
    /\ pending.link = "up"
    /\ Len(pending.streams) < MaxInbound
    /\ pending' = [pending EXCEPT
            !.streams = Append(@, [msg |-> msg, stopped |-> stopped, handled |-> FALSE,
                                   out |-> <<>>]),
            !.last = NoApiCall]
    /\ UNCHANGED registry /\ InbUnchanged

\* The spawned task: recv_message, then the match.
HandleInbound(i) ==
    /\ i \in DOMAIN pending.streams
    /\ ~pending.streams[i].handled
    /\ LET msg == pending.streams[i].msg
           r == pending_complete(pending.requests, pending.slots, msg.stream_id)
       IN  pending' = [pending EXCEPT
                !.requests = AfterInbound(pending.requests, pending.slots, msg),
                !.slots = IF Completes(msg.type) THEN Deliver(@, r.slot, msg) ELSE @,
                !.streams[i].handled = TRUE,
                !.streams[i].out = Reply(msg, pending.link, pending.streams[i].stopped),
                !.loop = LoopAfter(@, msg),
                !.last = NoApiCall]
    /\ UNCHANGED registry /\ InbUnchanged

\* The transport closes.
InboundLinkCloses ==
    /\ pending.link = "up"
    /\ pending' = [pending EXCEPT !.link = "closed", !.last = NoApiCall]
    /\ UNCHANGED registry /\ InbUnchanged

\* accept_bi fails on the closed transport: the loop ends and the entry is
\* marked Reconnecting.
InboundLoopEnds ==
    /\ pending.loop = "accepting"
    /\ pending.link = "closed"
    /\ pending' = [pending EXCEPT !.loop = "ended", !.last = NoApiCall]
    /\ registry' = mark_reconnecting(registry, 1, now)
    /\ InbUnchanged

PendNext ==
    \/ \E id \in StreamIds : PendRegister(id)
    \/ \E id \in StreamIds : \E msg \in Responses(id) : PendComplete(id, msg)
    \/ \E id \in StreamIds : PendCancel(id)
    \/ \E slot \in 1..MaxSlots : DropReceiver(slot)

SpecPending == InbInit /\ [][PendNext]_vars

InbNext ==
    \/ \E msg \in InboundMessages, stopped \in BOOLEAN : AcceptInbound(msg, stopped)
    \/ \E i \in 1..MaxInbound : HandleInbound(i)
    \/ InboundLinkCloses
    \/ InboundLoopEnds

SpecInbound == InbInit /\ [][InbNext]_vars

\* ---------------------------- SpecClassify: the classifier of /t/<id>/...
\* An Accept header value is a sequence of parts: the media types
\* text/event-stream and text/html (a list is a value of several parts) and a
\* byte that is not visible ASCII (obs-text, which HeaderValue accepts).
EventStream == "text/event-stream"
Html == "text/html"
ObsText == "0xE9"
Parts == {EventStream, Html, ObsText}

SeqsUpTo(S, n) == UNION {[1..k -> S] : k \in 0..n}

\* The values of the request's Accept header lines, in the order received.
AcceptValues == SeqsUpTo(Parts, MaxParts)
AcceptHeaders == SeqsUpTo(AcceptValues, MaxAccept)

\* HeaderMap::get: the first value of the name, None without one.
HeaderMapGet(values) ==
    IF Len(values) = 0 THEN [some |-> FALSE, value |-> <<>>]
    ELSE [some |-> TRUE, value |-> values[1]]

\* HeaderValue::to_str: Ok when every byte is visible ASCII.
to_str_ok(v) == \A i \in 1..Len(v) : v[i] # ObsText

\* str::contains("text/event-stream")
contains_event_stream(v) == \E i \in 1..Len(v) : v[i] = EventStream

\* is_sse_request
is_sse_request(values) ==
    LET v == HeaderMapGet(values) IN
    IF ~v.some THEN FALSE
    ELSE IF ~to_str_ok(v.value) THEN FALSE
    ELSE contains_event_stream(v.value)

\* handle_http_proxy, the two early returns: ws is Some(WebSocketUpgrade) or None.
Classify(ws, values) ==
    IF ws THEN "ws"
    ELSE IF is_sse_request(values) THEN "sse"
    ELSE "unary"

NoClassified == [fn |-> "none", ws |-> FALSE, accept |-> <<>>, path |-> "none"]

ClInit ==
    /\ grace_period = Grace
    /\ max_workstations = MaxLimit
    /\ registry = {}
    /\ now = 0
    /\ last = NoCall
    /\ conn = <<>>
    /\ cleanupDue = 0
    /\ req = NoReq
    /\ exch = NoExch
    /\ agent = NoAgent
    /\ relay = NoRelay
    /\ pending = NoPending
    /\ call = NoClassified

CallClassify(ws, values) ==
    /\ call' = [fn |-> "handle_http_proxy", ws |-> ws, accept |-> values,
                path |-> Classify(ws, values)]
    /\ CodecUnchanged

ClNext == \E ws \in BOOLEAN, values \in AcceptHeaders : CallClassify(ws, values)

SpecClassify == ClInit /\ [][ClNext]_vars

\* ------------------------------------- SpecSse: the SSE relay loop
\* What recv_message returns on the substream: a message, or Err (the substream
\* or the transport failed, or the frame could not be read).
SseDataMessage(data) == [type |-> "SseData", data |-> data]
SseCloseMessage == [type |-> "SseClose", data |-> <<>>]
OtherMessage == [type |-> "Ping", data |-> <<>>]
RecvErr == [type |-> "Error", data |-> <<>>]

\* The chunks of the origin's body, and a data field that is not base64.
SsePayloads == {<<72, 105>>, <<255>>}
NotBase64 == <<Pad>>

SseInputs ==
    {SseDataMessage(encode_body(p)) : p \in SsePayloads}
        \cup {SseDataMessage(NotBase64), SseCloseMessage, OtherMessage, RecvErr}

\* Ok(Message::SseClose(_)) | Err(_) => break
\* Faulty variant: SseClose is ignored like the other variants.
Breaks_ErrorOnly(m) == m.type = "Error"
Breaks(m) == m.type \in {"SseClose", "Error"}

\* One turn of the loop of relay_sse_to_client on the message m: the chunks sent
\* to the body and whether the loop ends. tx.send fails when the receiving half
\* (the response body) has been dropped.
SseTurn(m, rx) ==
    IF m.type = "SseData"
    THEN LET decoded == decode_body(m.data) IN
         IF ~decoded.ok THEN [chunks |-> <<>>, brk |-> FALSE]
         ELSE IF rx = "open" THEN [chunks |-> <<decoded.bytes>>, brk |-> FALSE]
         ELSE [chunks |-> <<>>, brk |-> TRUE]
    ELSE [chunks |-> <<>>, brk |-> Breaks(m)]

\* relay:
\*   wire   what recv_message returns on the substream, in order, read or not;
\*   pos    how many of them the loop has read;
\*   out    the chunks sent to the body;
\*   loop   "reading", or "ended" once relay_sse_to_client has returned;
\*   rx     the body's receiving half: "open", or "dropped" by a client that left;
\*   body   "streaming", or "ended" once the sender tx has been dropped.
SseInit ==
    /\ grace_period = Grace
    /\ max_workstations = MaxLimit
    /\ registry = {}
    /\ now = 0
    /\ last = NoCall
    /\ conn = <<>>
    /\ cleanupDue = 0
    /\ req = NoReq
    /\ exch = NoExch
    /\ agent = NoAgent
    /\ relay = [pc |-> "sse", wire |-> <<>>, pos |-> 0, out |-> <<>>, loop |-> "reading",
                rx |-> "open", body |-> "streaming"]
    /\ pending = NoPending
    /\ call = NoFn

\* The agent writes a message on the substream, or the substream fails.
SseArrives(m) ==
    /\ Len(relay.wire) < MaxSseMsgs
    /\ \A i \in 1..Len(relay.wire) : relay.wire[i] # RecvErr
    /\ relay' = [relay EXCEPT !.wire = Append(@, m)]
    /\ WsUnchanged

\* relay_sse_to_client: one turn of the loop; when the loop ends the task
\* returns and drops tx, which ends the body.
relay_sse_to_client ==
    /\ relay.loop = "reading"
    /\ relay.pos < Len(relay.wire)
    /\ LET turn == SseTurn(relay.wire[relay.pos + 1], relay.rx) IN
       relay' = [relay EXCEPT !.pos = @ + 1,
                              !.out = @ \o turn.chunks,
                              !.loop = IF turn.brk THEN "ended" ELSE @,
                              !.body = IF turn.brk THEN "ended" ELSE @]
    /\ WsUnchanged

\* The external client goes away: the response body is dropped.
SseClientLeaves ==
    /\ relay.rx = "open"
    /\ relay' = [relay EXCEPT !.rx = "dropped"]
    /\ WsUnchanged

SseNext ==
    \/ \E m \in SseInputs : SseArrives(m)
    \/ relay_sse_to_client
    \/ SseClientLeaves

SpecSse == SseInit /\ [][SseNext]_vars

\* The relay task is scheduled whenever it can take a turn. Nothing makes the
\* agent write or the external client leave.
SpecSseLive == SpecSse /\ WF_vars(relay_sse_to_client)

\* ------------------------- SpecSseHead: the head of the SSE response
\* The headers of SseHeadersMessage are a HashMap<String, String>: one value for
\* each name it holds. Four names, two values each.
HeaderNames == {"content-type", "cache-control", "connection", "x-request-id"}
HeaderValues(name) ==
    IF name = "content-type" THEN {"text/event-stream", "text/plain"}
    ELSE IF name = "cache-control" THEN {"no-cache", "max-age=60"}
    ELSE IF name = "connection" THEN {"keep-alive", "close"}
    ELSE {"a", "b"}

HeaderMaps ==
    UNION {{h \in [names -> UNION {HeaderValues(n) : n \in HeaderNames}] :
                \A n \in names : h[n] \in HeaderValues(n)} : names \in SUBSET HeaderNames}

\* http::response::Builder::header: appends the value to the values of the name.
builder_header(headers, name, value) == [headers EXCEPT ![name] = Append(@, value)]

\* for (name, value) in headers_msg.headers.iter() { builder.header(name, value) }
AgentHeaders(h) ==
    [n \in HeaderNames |-> IF n \in DOMAIN h THEN <<h[n]>> ELSE <<>>]

\* handle_sse_proxy, the response build: the agent's headers, then content-type,
\* cache-control and connection.
SseResponseHeaders(h) ==
    builder_header(
        builder_header(
            builder_header(AgentHeaders(h), "content-type", "text/event-stream"),
            "cache-control", "no-cache"),
        "connection", "keep-alive")

ShInit ==
    /\ grace_period = Grace
    /\ max_workstations = MaxLimit
    /\ registry = {}
    /\ now = 0
    /\ last = NoCall
    /\ conn = <<>>
    /\ cleanupDue = 0
    /\ req = NoReq
    /\ exch = NoExch
    /\ agent = NoAgent
    /\ relay = NoRelay
    /\ pending = NoPending
    /\ call = [fn |-> "none", status |-> 0, agent_headers |-> <<>>, headers |-> <<>>]

\* The SseHeaders of the agent has arrived: the response is built.
BuildSseResponse(status, h) ==
    /\ call' = [fn |-> "handle_sse_proxy", status |-> status, agent_headers |-> h,
                headers |-> SseResponseHeaders(h)]
    /\ CodecUnchanged

ShNext == \E status \in OriginStatuses, h \in HeaderMaps : BuildSseResponse(status, h)

SpecSseHead == ShInit /\ [][ShNext]_vars

\* ------------------------ SpecSseOpen: LocalProxy::handle_sse_open
\* relay:
\*   at        "request" (req_builder.send().await), "streaming" (in the loop
\*             over response.bytes_stream()), "returned";
\*   origin    what the origin did: the chunks of its body, and how it ended
\*             ("none" while it goes on, "refused", "eof", "stream_error");
\*   link      the substream to the server: "up", or "closed" (writes fail);
\*   sent      the messages written on the substream, in order;
\*   finished  quic_send.finish() was called.
SoInit ==
    /\ grace_period = Grace
    /\ max_workstations = MaxLimit
    /\ registry = {}
    /\ now = 0
    /\ last = NoCall
    /\ conn = <<>>
    /\ cleanupDue = 0
    /\ req = NoReq
    /\ exch = NoExch
    /\ agent = NoAgent
    /\ relay = [pc |-> "sse_open", at |-> "request", chunks |-> <<>>, ended |-> "none",
                link |-> "up", sent |-> <<>>, finished |-> FALSE]
    /\ pending = NoPending
    /\ call = NoFn

\* quic::send_message on the agent's sending half: the message is written when
\* the substream is up.
SoWrite(sent, link, msg) == IF link = "up" THEN Append(sent, msg) ELSE sent

\* The error field of the SseClose: None after the loop over the body, however
\* the loop ended (lines 257-260); Some(e.to_string()) when the request to the
\* origin failed (lines 265-268). TRUE stands for Some.
CloseErrorAfterBody(ended) == FALSE
CloseErrorOnRefusal == TRUE

\* req_builder.send().await => Err(e): SseClose{error: Some(e)}, finish.
SoRequestFails ==
    /\ relay.pc = "sse_open" /\ relay.at = "request"
    /\ relay' = [relay EXCEPT !.at = "returned", !.ended = "refused",
                              !.sent = SoWrite(@, relay.link, SseClose(CloseErrorOnRefusal)),
                              !.finished = TRUE]
    /\ WsUnchanged

\* req_builder.send().await => Ok(response): SseHeaders is sent; a failed write
\* returns at once.
SoResponse(status) ==
    /\ relay.pc = "sse_open" /\ relay.at = "request"
    /\ relay' = [relay EXCEPT !.at = IF relay.link = "up" THEN "streaming" ELSE "returned",
                              !.sent = SoWrite(@, relay.link, SseHeaders(status, TRUE))]
    /\ WsUnchanged

\* After the loop: SseClose{error: None}, finish; the results are ignored.
SoAfterLoop(r, ended) ==
    [r EXCEPT !.at = "returned", !.ended = ended,
              !.sent = SoWrite(@, r.link, SseClose(CloseErrorAfterBody(ended))),
              !.finished = TRUE]

\* stream.next() => Some(Ok(chunk)): SseData is sent; a failed write breaks.
SoChunk(p) ==
    /\ relay.pc = "sse_open" /\ relay.at = "streaming"
    /\ Len(relay.chunks) < MaxChunks
    /\ LET r == [relay EXCEPT !.chunks = Append(@, p),
                              !.sent = SoWrite(@, relay.link,
                                               SseDataMessage(encode_body(p)))] IN
       relay' = IF relay.link = "up" THEN r ELSE SoAfterLoop(r, "none")
    /\ WsUnchanged

\* stream.next() => None: the loop ends.
SoEof ==
    /\ relay.pc = "sse_open" /\ relay.at = "streaming"
    /\ relay' = SoAfterLoop(relay, "eof")
    /\ WsUnchanged

\* stream.next() => Some(Err(_)) => break
SoStreamError ==
    /\ relay.pc = "sse_open" /\ relay.at = "streaming"
    /\ relay' = SoAfterLoop(relay, "stream_error")
    /\ WsUnchanged

\* The substream or the transport to the server fails.
SoBreak ==
    /\ relay.pc = "sse_open" /\ relay.at # "returned"
    /\ relay.link = "up"
    /\ relay' = [relay EXCEPT !.link = "closed"]
    /\ WsUnchanged

SoNext ==
    \/ SoRequestFails
    \/ \E status \in OriginStatuses : SoResponse(status)
    \/ \E p \in SsePayloads : SoChunk(p)
    \/ SoEof
    \/ SoStreamError
    \/ SoBreak

SpecSseOpen == SoInit /\ [][SoNext]_vars

\* -------------- SpecLocks: the RwLocks of the registry and the pending table
\* A task is a cycle of instructions: taking a lock (self.workstations.read()
\* or .write(), self.requests.write()), the hash-map operation at whose end the
\* guard is dropped, and suspensions on I/O or on a timer.
Acquire(lock, mode) == [k |-> "acquire", lock |-> lock, mode |-> mode, what |-> "lock"]
Release(lock, what) == [k |-> "release", lock |-> lock, mode |-> "none", what |-> what]
Io(what) == [k |-> "io", lock |-> "none", mode |-> "none", what |-> what]

\* WorkstationRegistry::get followed by the caller's next instructions: the
\* guard is a local of get and is dropped when get returns the clone.
\* Faulty variant: the guard lives as long as the caller's instructions.
registry_get_GuardKept(rest) ==
    <<Acquire("registry", "read")>> \o rest \o <<Release("registry", "get")>>
registry_get(rest) ==
    <<Acquire("registry", "read"), Release("registry", "get")>> \o rest

\* The other operations of the registry and PendingRequests::complete.
registry_op(mode, what) == <<Acquire("registry", mode), Release("registry", what)>>
pending_op(what) == <<Acquire("pending", "write"), Release("pending", what)>>

\* handle_http_proxy: get, open_bi, send_message, timeout(recv_message).
ProxyProgram ==
    registry_get(<<Io("open_bi"), Io("send_message"), Io("recv_message")>>)

\* handle_connection, Register branch, with handle_workstation_messages.
HandlerProgram ==
    <<Io("recv_message")>> \o registry_op("read", "count")
        \o registry_op("write", "register") \o <<Io("send_message"), Io("accept_bi")>>
        \o registry_op("write", "mark_reconnecting")
        \o registry_op("write", "unregister")

\* handle_connection, Reconnect branch.
ReconnectProgram ==
    <<Io("recv_message")>> \o registry_op("write", "reconnect")
        \o <<Io("send_message"), Io("accept_bi")>>
        \o registry_op("write", "mark_reconnecting")

\* start_cleanup_task: interval.tick(), cleanup_expired.
CleanupProgram == <<Io("tick")>> \o registry_op("write", "cleanup_expired")

\* The task spawned per inbound substream: recv_message, pending.complete.
InboundProgram == <<Io("recv_message")>> \o pending_op("complete")

LockTasks ==
    {<<"proxy", i>> : i \in 1..LkProxies}
        \cup {<<"register", 0>>, <<"reconnect", 0>>, <<"cleanup", 0>>, <<"inbound", 0>>}

Program(t) ==
    IF t[1] = "proxy" THEN ProxyProgram
    ELSE IF t[1] = "register" THEN HandlerProgram
    ELSE IF t[1] = "reconnect" THEN ReconnectProgram
    ELSE IF t[1] = "cleanup" THEN CleanupProgram
    ELSE InboundProgram

\* tokio::sync::RwLock: a writer excludes everyone, a reader excludes writers.
CanAcquire(held, lock, mode) ==
    \A h \in held : h.lock = lock => (mode = "read" /\ h.mode = "read")

LkInit ==
    /\ grace_period = Grace
    /\ max_workstations = MaxLimit
    /\ registry = {}
    /\ now = 0
    /\ last = NoCall
    /\ conn = <<>>
    /\ cleanupDue = 0
    /\ req = NoReq
    /\ exch = NoExch
    /\ agent = NoAgent
    /\ relay = NoRelay
    /\ pending = NoPending
    /\ call = [fn |-> "locks", pc |-> [t \in LockTasks |-> 1], held |-> {}]

LkAdvance(t) == IF call.pc[t] = Len(Program(t)) THEN 1 ELSE call.pc[t] + 1

\* The task gets the lock it was waiting for.
LkAcquire(t) ==
    LET i == Program(t)[call.pc[t]] IN
    /\ i.k = "acquire"
    /\ CanAcquire(call.held, i.lock, i.mode)
    /\ call' = [call EXCEPT !.pc[t] = LkAdvance(t),
                            !.held = @ \cup {[task |-> t, lock |-> i.lock, mode |-> i.mode]}]
    /\ CodecUnchanged

\* The hash-map operation is done and the guard is dropped.
LkRelease(t) ==
    LET i == Program(t)[call.pc[t]] IN
    /\ i.k = "release"
    /\ call' = [call EXCEPT !.pc[t] = LkAdvance(t),
                            !.held = {h \in @ : ~(h.task = t /\ h.lock = i.lock)}]
    /\ CodecUnchanged

\* The I/O or the timer the task was suspended on completes.
LkIo(t) ==
    LET i == Program(t)[call.pc[t]] IN
    /\ i.k = "io"
    /\ call' = [call EXCEPT !.pc[t] = LkAdvance(t)]
    /\ CodecUnchanged

LkNext ==
    \/ \E t \in LockTasks : LkAcquire(t)
    \/ \E t \in LockTasks : LkRelease(t)
    \/ \E t \in LockTasks : LkIo(t)

SpecLocks == LkInit /\ [][LkNext]_vars

\* =================================================================== claims
\* A step of SpecRegistry that is the call `op` (the clock stands still in a call).
IsCall(op) == last'.op = op /\ now' = now

\* A step of handle_http_proxy's lookup: the slot takes a new request.
IsLookup == req.pc \in {"idle", "done"} /\ req' # req

\* Handler c leaves position p in this step.
Leaves(c, p) == conn[c].pc = p /\ conn'[c].pc # p

\* C1 (as claimed): when the transport of a workstation that completed its
\* handshake dies, the handler calls mark_reconnecting and not unregister: in the
\* step in which the handler finishes, the registry still holds the entry for the
\* id, in state Reconnecting.
C1_EntryKeptReconnecting ==
    [][\A c \in DOMAIN conn :
          (conn[c].pc \in {"serve", "unregister"} /\ conn'[c].pc = "done")
          => /\ get(registry', conn[c].id) # None
             /\ get(registry', conn[c].id).state.tag = "Reconnecting"]_vars

\* C2: reconnect(id, t') at time t on an entry marked at t0 succeeds, swapping in
\* t' and setting Active, for t <= t0 + G, and fails with GraceExpired for
\* t > t0 + G; on an Active entry it succeeds; on an absent id it fails with
\* NotFound. mark_reconnecting(id) at t0 sets Reconnecting(t0). cleanup_expired at
\* t removes every entry with t > t0 + G and keeps the others.
C2_GraceWindow ==
    [][/\ IsCall("reconnect") =>
            LET e == get(registry, last'.id)
                swapped == WorkstationInfo(last'.id, last'.connection, Active)
            IN  /\ e = None => last'.res = "NotFound" /\ registry' = registry
                /\ e # None /\ e.state.tag = "Active"
                      => last'.res = "Ok" /\ get(registry', last'.id) = swapped
                /\ e # None /\ e.state.tag = "Reconnecting"
                      /\ now <= e.state.since + grace_period
                      => last'.res = "Ok" /\ get(registry', last'.id) = swapped
                /\ e # None /\ e.state.tag = "Reconnecting"
                      /\ now > e.state.since + grace_period
                      => last'.res = "GraceExpired" /\ registry' = registry
       /\ IsCall("mark_reconnecting") /\ contains_key(registry, last'.id)
            => get(registry', last'.id).state = Reconnecting(now)
       /\ IsCall("cleanup_expired") =>
            \A e \in registry :
                (e \in registry') <=>
                    ~(e.state.tag = "Reconnecting" /\ now > e.state.since + grace_period)
      ]_vars

\* C2 witness: a reconnect refused one second after the grace period ended, the
\* entry still there.
C2_Witness ==
    /\ last.op = "reconnect" /\ last.res = "GraceExpired"
    /\ get(registry, last.id) # None
    /\ get(registry, last.id).state.tag = "Reconnecting"
    /\ now = get(registry, last.id).state.since + grace_period + 1

\* C3 (as claimed): the registry never holds more than max_workstations entries.
C3_AtMostN == count(registry) <= max_workstations

\* C9: register(id, t) on an absent id succeeds and get(id) is then an Active
\* entry with transport t; register(id, t2) on a present id fails with Duplicate
\* and leaves the registry, hence the entry's transport, as it was.
C9_RegisterThenDuplicate ==
    [][IsCall("register") =>
          IF contains_key(registry, last'.id)
          THEN last'.res = "Duplicate" /\ registry' = registry
          ELSE /\ last'.res = "Ok"
               /\ get(registry', last'.id)
                    = WorkstationInfo(last'.id, last'.connection, Active)]_vars

\* C9 witness: a register refused as Duplicate while the entry holds another
\* transport, Active.
C9_Witness ==
    /\ last.op = "register" /\ last.res = "Duplicate"
    /\ get(registry, last.id) # None
    /\ get(registry, last.id).state.tag = "Active"
    /\ get(registry, last.id).connection # last.connection

\* C10: at most one registry entry, hence one state and one current transport,
\* per workstation id.
C10_OneEntryPerId ==
    \A e1 \in registry, e2 \in registry : e1.id = e2.id => e1 = e2

\* C10 witness: every id has an entry, one of them reattached by a reconnect
\* that swapped in another transport.
C10_Witness ==
    /\ \A id \in Ids : contains_key(registry, id)
    /\ last.op = "reconnect" /\ last.res = "Ok"
    /\ \E e \in registry : e.id # last.id /\ e.connection # last.connection

\* Handler c has answered its handshake, whatever the answer.
Answered(c) == conn[c].reply \notin {"none", "SendFailed"}

\* C4 (as claimed): two agents with the correct key concurrently send Register
\* for one id that has no entry; once both are answered, and neither was turned
\* away for capacity, exactly one answer is Registered and the other is Error
\* REGISTRATION_FAILED.
C4_ExactlyOneRegistered ==
    (/\ Answered(1) /\ Answered(2)
     /\ conn[1].reply # "LIMIT_REACHED" /\ conn[2].reply # "LIMIT_REACHED")
    => {conn[1].reply, conn[2].reply} = {"Registered", "REGISTRATION_FAILED"}

\* No handler is in the middle of its handshake or of its return.
HandlersAtRest == \A c \in DOMAIN conn : conn[c].pc \in {"free", "serve", "done"}

\* The entry for id is Reconnecting, its grace period is over, every handler is
\* at rest, and the cleanup task is not due.
ExpiredEntryAtRest(id) ==
    /\ get(registry, id) # None
    /\ get(registry, id).state.tag = "Reconnecting"
    /\ now - get(registry, id).state.since > grace_period
    /\ HandlersAtRest
    /\ now < cleanupDue

\* C5 (as claimed): a Reconnecting entry that is not reattached is removed no
\* later than G seconds after its since timestamp: in no state at rest does the
\* registry hold a Reconnecting entry with now - since > G.
C5_RemovedWithinGrace == \A id \in Ids : ~ExpiredEntryAtRest(id)

\* The agent of id crashed: a transport that was answered Registered for id is
\* closed and its handler has returned, and no other transport for id is open.
Crashed(id) ==
    /\ \E c \in DOMAIN conn :
          /\ conn[c].id = id /\ conn[c].reply = "Registered"
          /\ conn[c].link = "closed" /\ conn[c].pc = "done"
    /\ \A c \in DOMAIN conn : conn[c].id = id => conn[c].pc \in {"done", "reconnect"}

\* C6 (as claimed): after a connected agent crashes, a request looked up in the
\* gap, within G, is not answered 404; a Reconnect handshake made in the gap,
\* within G, succeeds; and a request answered while the reattached agent serves a
\* healthy origin is answered 200.
C6_GapThenReattach ==
    [][/\ (IsLookup /\ Crashed(req'.id) /\ now <= grace_period
             /\ \A c \in DOMAIN conn : conn[c].id = req'.id => conn[c].pc = "done")
          => ~(req'.pc = "done" /\ req'.status = 404)
       /\ \A c \in DOMAIN conn :
             (Leaves(c, "reconnect") /\ Crashed(conn[c].id) /\ now <= grace_period)
             => conn'[c].pc = "reply"
       /\ (req.pc = "await" /\ req'.pc = "done" /\ req.origin = "healthy"
             /\ AgentServing(req.connection))
          => req'.status = 200]_vars

\* C7 (as claimed): once an agent's transport has died and G + 1 seconds have
\* passed without a reconnect, a request for its id is answered 404.
C7_NotFoundAfterGrace ==
    [][\A id \in Ids :
          (/\ IsLookup /\ req'.id = id
           /\ get(registry, id) # None
           /\ get(registry, id).state.tag = "Reconnecting"
           /\ now - get(registry, id).state.since >= grace_period + 1
           /\ HandlersAtRest
           /\ now < cleanupDue)
          => (req'.pc = "done" /\ req'.status = 404)]_vars

\* Every other handler for the id of c has returned after answering its
\* handshake: the earlier agents of that id were stopped and the server is done
\* with their transports.
OthersStopped(c) ==
    \A d \in DOMAIN conn :
        (d # c /\ conn[d].id = conn[c].id)
        => conn[d].pc = "done" /\ conn[d].reply # "SendFailed"

DoneFor(path) ==
    exch.pc = "done" /\ exch.path = path /\ get(registry, exch.id) # None

\* C11 (as claimed): every unary request for a registered id ends with one
\* outcome: 502 when the substream cannot be opened or the HttpRequest cannot be
\* sent; the agent's status, with its decoded body, when the first reply is an
\* HttpResponse; 500 when it is another variant; 502 on a transport error while
\* waiting; 504 when nothing arrives within request_timeout.
C11_UnaryOutcome ==
    DoneFor("unary") =>
        /\ exch.sent = "none" => exch.out = Status(502)
        /\ (exch.first.type = "HttpResponse" /\ exch.first.body_ok)
              => exch.out = Relayed(exch.first.status)
        /\ exch.first.type \in {"SseHeaders", "SseClose", "WsData"}
              => exch.out = Status(500)
        /\ exch.first.type = "Finished" => exch.out = Status(502)
        /\ (exch.sent # "none" /\ exch.first = NoReply)
              => exch.out = IF exch.link = "closed" THEN Status(502) ELSE Status(504)

\* C12: a request for an id without a registry entry is answered 404 on the
\* unary, the SSE and the WebSocket path, on the last before the upgrade, and no
\* substream is opened and no message is written to any agent.
C12_NotFoundOnEveryPath ==
    (exch.pc \notin {"idle", "get"} /\ get(registry, exch.id) = None)
    => /\ exch.pc = "done"
       /\ exch.out = Status(404)
       /\ exch.sent = "none"
       /\ exch.first = NoReply

\* C12 witness: a WebSocket upgrade request for an absent id while another id is
\* registered, answered 404.
C12_Witness ==
    /\ exch.pc = "done" /\ exch.path = "ws"
    /\ registry # {} /\ get(registry, exch.id) = None
    /\ exch.out = Status(404)

\* C13 (as claimed): when the tunnel client's call to the origin fails, it sends
\* no HttpResponse and the external request ends with 504, by the timeout.
C13_OriginFailureGives504 ==
    (/\ DoneFor("unary") /\ exch.peer = "client" /\ exch.origin = "refused"
     /\ exch.sent = "HttpRequest" /\ exch.link = "up")
    => exch.first.type # "HttpResponse" /\ exch.out = Status(504)

\* C19 (as claimed): for a request whose Accept header contains
\* text/event-stream, to a registered workstation whose tunnel client is running
\* with an origin that answers, the client's accept loop dispatches the SseOpen
\* and the external client gets a streaming response with the origin's status.
C19_SseReachesOrigin ==
    (/\ DoneFor("sse") /\ exch.peer = "client" /\ exch.origin = "ok"
     /\ exch.link = "up")
    => /\ exch.first.type = "SseHeaders"
       /\ exch.out = Streaming(exch.origin_status)

\* C20 (as claimed): on the SSE path the first reply decides the result:
\* SseHeaders gives a streaming response with the agent's status, SseClose gives
\* 502 with an error and 204 without, a transport error gives 502, no reply
\* within request_timeout gives 504, and a failure to open the substream or to
\* send SseOpen gives 502.
C20_SseOutcome ==
    DoneFor("sse") =>
        /\ exch.sent = "none" => exch.out = Status(502)
        /\ exch.first.type = "SseHeaders" => exch.out = Streaming(exch.first.status)
        /\ exch.first.type = "SseClose"
              => exch.out = IF exch.first.error THEN Status(502) ELSE Status(204)
        /\ exch.first.type = "Finished" => exch.out = Status(502)
        /\ (exch.sent # "none" /\ exch.first = NoReply)
              => exch.out = IF exch.link = "closed" THEN Status(502) ELSE Status(504)

\* delay(k) as the reconnect strategy is specified, in milliseconds.
delay(k, max_delay) ==
    Min(BaseDelayMs * 2 ^ (IF Less(FromNat(MaxExponent), k) THEN MaxExponent ELSE k.lo - 1),
        max_delay * 1000)

\* The attempt numbers the delay is computed for: the first ones, past the cap of
\* the exponent, and the last values of the u32 counter.
AttemptSamples ==
    {FromNat(n) : n \in 1..(AgentMaxWaits + 1)} \cup {U32(0, Half - 1), U32(1, 0)} \cup NearMax

\* C14: for every attempt number k >= 1 and every max_delay, calculate_delay
\* gives min(100 ms * 2^min(k-1, 7), max_delay) without overflow, and
\* delay(k) <= delay(k+1) <= max_delay; the delay slept is the one computed.
C14_DelayFormula ==
    /\ agent.pc # "none" =>
          \A k \in AttemptSamples :
              LET d == calculate_delay(k, agent.max_delay) IN
              /\ ~d.overflow
              /\ d.ms = delay(k, agent.max_delay)
              /\ d.ms <= agent.max_delay * 1000
              /\ k # U32Max =>
                    /\ ~calculate_delay(Succ(k), agent.max_delay).overflow
                    /\ d.ms <= calculate_delay(Succ(k), agent.max_delay).ms
    /\ (agent.pc = "sleep" /\ agent.attempt # Zero)
          => agent.delay = delay(agent.attempt, agent.max_delay)

\* C14 witness: the agent sleeps after its ninth consecutive wait, the exponent
\* capped at 7 and the delay of 12.8 s below max_delay.
C14_Witness ==
    /\ agent.pc = "sleep" /\ agent.attempt = FromNat(MaxExponent + 2)
    /\ agent.delay = BaseDelayMs * 2 ^ MaxExponent
    /\ agent.delay < agent.max_delay * 1000

\* C15 (as claimed): the counter is reset to 0 by every successful handshake and
\* incremented once per wait before the delay is computed: the wait after the
\* loss of an established connection is delay(1), and the k-th consecutive wait
\* without a successful handshake in between is delay(k).
C15_KthWaitIsDelayK ==
    [][/\ (agent.pc = "connect" /\ agent'.pc = "serve" /\ agent.enabled)
             => agent'.attempt = Zero
       /\ (agent.pc = "ended" /\ agent'.pc # "ended" /\ agent.enabled)
             => /\ agent'.pc = "sleep"
                /\ agent'.delay = delay(Succ(agent.waits), agent.max_delay)]_vars

\* C16 (as claimed): the outer loop ends if and only if reconnect is disabled:
\* disabled, the agent exits when its first attempt has ended and never waits or
\* connects again; enabled, it never exits and connects again after every wait.
C16_ExitsIffDisabled ==
    [][/\ (agent.pc = "ended" /\ agent'.pc # "ended")
             => IF agent.enabled THEN agent'.pc = "sleep" ELSE agent'.pc = "exited"
       /\ (agent.pc = "sleep" /\ agent'.pc # "sleep") => agent'.pc = "connect"
       /\ agent.pc \in {"exited", "panicked"} => agent' = agent]_vars

\* C17: a Register or Reconnect handshake with a wrong api_key is answered
\* AUTH_FAILED whatever the registry holds, leaves the registry unchanged and
\* ends the handler; a handler that answered AUTH_FAILED never serves and never
\* answers Registered.
C17_WrongKeyRejected ==
    [][\A c \in DOMAIN conn :
          /\ \A kind \in {"Register", "Reconnect"}, id \in Ids :
                Accept(c, kind, id, FALSE)
                    => /\ conn'[c].reply = "AUTH_FAILED"
                       /\ conn'[c].pc = "done"
                       /\ registry' = registry
          /\ conn[c].reply = "AUTH_FAILED"
                => /\ conn'[c].pc \in {"done", "free"}
                   /\ conn'[c].reply # "Registered"
                   /\ \A e \in registry' : e.connection = c => e \in registry]_vars

\* C17 witness: a handshake for an id the registry already holds, made while the
\* registry is at capacity, was answered AUTH_FAILED.
C17_Witness ==
    \E c \in DOMAIN conn :
        /\ conn[c].reply = "AUTH_FAILED"
        /\ conn[c].pc = "done"
        /\ count(registry) >= max_workstations
        /\ \E e \in registry : e.id = conn[c].id /\ e.connection < c

\* The registry holds a live entry for id: an Active one, or a Reconnecting one
\* whose grace period has not expired.
LiveEntry(id) ==
    /\ get(registry, id) # None
    /\ get(registry, id).state.tag = "Reconnecting"
          => now - get(registry, id).state.since <= grace_period

\* C18: the Reconnect branch goes on to answer Registered exactly when
\* registry.reconnect swapped the new transport in, which it does for every live
\* entry whatever the count of the registry; for an absent id or an expired entry
\* it answers RECONNECT_FAILED (on a transport that is still open) and leaves the
\* registry as it is; it never adds an id to the registry; after the swap the
\* answer sent on an open transport is Registered.
C18_ReconnectAnswer ==
    [][\A c \in DOMAIN conn :
          /\ Leaves(c, "reconnect") =>
                LET id == conn[c].id
                    swapped == WorkstationInfo(id, c, Active) \in registry'
                IN  /\ conn'[c].pc = "reply" <=> swapped
                    /\ swapped <=> LiveEntry(id)
                    /\ ~LiveEntry(id) =>
                          /\ conn'[c].pc = "done"
                          /\ conn[c].link # "closed" => conn'[c].reply = "RECONNECT_FAILED"
                          /\ conn'[c].reply # "Registered"
                          /\ registry' = registry
                    /\ {e.id : e \in registry'} = {e.id : e \in registry}
          /\ (Leaves(c, "reply") /\ conn[c].kind = "Reconnect" /\ conn[c].link # "closed")
                => conn'[c].pc = "serve" /\ conn'[c].reply = "Registered"
          /\ (conn[c].kind = "Reconnect" /\ conn'[c].reply = "Registered")
                => conn[c].pc \in {"reply", "serve", "done"}]_vars

\* C18 witness: with the registry at capacity, a Reconnect handshake made within
\* the grace period, after the clock had advanced, was answered Registered, its
\* transport is the one in the registry, and it serves.
C18_Witness ==
    \E c \in DOMAIN conn :
        /\ conn[c].kind = "Reconnect" /\ conn[c].reply = "Registered"
        /\ conn[c].pc = "serve"
        /\ WorkstationInfo(conn[c].id, c, Active) \in registry
        /\ count(registry) >= max_workstations
        /\ now > 0

\* No relay task has anything to read: each one has ended or waits for its peer.
Blocked ==
    /\ relay.c2t = "ended" \/ relay.in_c = <<>>
    /\ relay.w2t = "ended" \/ relay.in_o = <<>>
    /\ relay.t2w = "ended" \/ (relay.down = <<>> /\ ~relay.fin_down)
    /\ relay.t2c = "ended" \/ (relay.up = <<>> /\ ~relay.fin_up)

\* C21 (as claimed): in a WebSocket relay, on the server and on the agent, when
\* one direction ends the other one is cancelled: once the tasks have handled
\* everything in flight, no task still runs beside an ended one.
C21_OtherDirectionCancelled ==
    (relay.pc = "ws" /\ Blocked)
        => /\ relay.c2t = relay.t2c
           /\ relay.w2t = relay.t2w

\* The Text and Binary frames of a sequence of frames.
Data(frames) == SelectSeq(frames, LAMBDA f : f.t \in {"Text", "Binary"})

\* The frames that the messages of a substream will be forwarded as.
RECURSIVE Forwarded(_)
Forwarded(msgs) ==
    IF msgs = <<>> THEN <<>>
    ELSE (IF Head(msgs).type = "WsData" THEN FromWsData(Head(msgs)) ELSE <<>>)
         \o Forwarded(Tail(msgs))

IsPrefix(s, t) == Len(s) <= Len(t) /\ s = SubSeq(t, 1, Len(s))

\* C22: the Text and Binary frames delivered to the origin are a prefix of the
\* ones the external client sent, and the other way round; while the four tasks
\* run, the frames sent are the frames delivered followed by the ones on the
\* substream and the ones not read yet, in order and with their kind.
C22_FramesInOrder ==
    relay.pc = "ws" =>
        /\ IsPrefix(Data(relay.out_o), relay.sent_c)
        /\ IsPrefix(Data(relay.out_c), relay.sent_o)
        /\ (relay.c2t = "run" /\ relay.t2w = "run")
              => relay.sent_c = Data(relay.out_o) \o Forwarded(relay.down) \o Data(relay.in_c)
        /\ (relay.w2t = "run" /\ relay.t2c = "run")
              => relay.sent_o = Data(relay.out_c) \o Forwarded(relay.up) \o Data(relay.in_o)

\* C22 witness: with the four tasks running, a binary then a text frame reached
\* the origin and a text then a binary frame reached the external client.
C22_Witness ==
    /\ relay.pc = "ws"
    /\ relay.c2t = "run" /\ relay.t2c = "run" /\ relay.w2t = "run" /\ relay.t2w = "run"
    /\ relay.out_o = <<Binary(<<255>>), Text(<<72, 105>>)>>
    /\ relay.out_c = <<Text(<<72, 105>>), Binary(<<255>>)>>

\* The bytes are one whole frame of a message: the prefix is the length of the
\* JSON text and every byte is there.
WholeFrame(data) ==
    /\ data.json # NoMsg
    /\ data.len = data.json.size
    /\ data.bytes = Plus(data.json.size, 4)

\* C23 (as claimed): for every message m, encode_message gives 4 + |payload|
\* bytes whose prefix is the payload length, and decode_message on them returns
\* m and the encoded length; decode_message fails on fewer than 4 bytes and on
\* fewer bytes than the prefix announces.
C23_RoundTrip ==
    /\ call.fn = "encode_message"
          => /\ call.data.bytes = Plus(call.msg.size, 4)
             /\ call.data.len = call.msg.size
    /\ (call.fn = "decode_message" /\ call.msg # NoMsg)
          => call.res = Decoded(call.msg, call.data.bytes)
    /\ (call.fn = "decode_message"
          /\ (Less(call.data.bytes, FromNat(4))
                \/ Less(call.data.bytes, Plus(call.data.len, 4))))
          => ~call.res.ok

\* C24 (as claimed): recv_message and decode_message refuse exactly the prefixes
\* greater than 10,485,760: a whole frame with a prefix up to that limit is read
\* and parsed, and any larger prefix fails as too large, before the payload is
\* looked at.
C24_TenMiBLimit ==
    call.fn \in {"decode_message", "recv_message"} =>
        /\ (WholeFrame(call.data) /\ AtMost(call.data.len, FromNat(TenMiB)))
              => call.res = Decoded(call.data.json, call.data.bytes)
        /\ (AtMost(FromNat(4), call.data.bytes) /\ Less(FromNat(TenMiB), call.data.len))
              => call.res = Failed("message too large")

\* This step is a call op of the pending table's API.
IsApiCall(op) == pending'.last.op = op /\ pending' # pending

\* C25: complete(id, msg) removes the slot of id and delivers msg to it, answering
\* true, when its receiver still waits, and changes nothing and answers false when
\* id has no slot; cancel(id) removes the slot and delivers nothing; no slot ever
\* receives a second message, and after complete or cancel id has no slot, so that
\* a further complete answers false.
C25_PendingSlots ==
    [][LET id == pending'.last.id
           slot == SlotOf(pending.requests, id)
       IN  /\ IsApiCall("complete") =>
                /\ SlotOf(pending'.requests, id) = 0
                /\ {e \in pending'.requests : e.id # id} = {e \in pending.requests : e.id # id}
                /\ slot = 0 => (~pending'.last.res /\ pending'.slots = pending.slots)
                /\ (slot # 0 /\ pending.slots[slot].rx = "waiting") =>
                      /\ pending'.last.res
                      /\ Len(pending'.slots[slot].got) = Len(pending.slots[slot].got) + 1
                      /\ pending'.slots[slot].got[1].stream_id = id
                      /\ \A o \in DOMAIN pending.slots :
                            o # slot => pending'.slots[o] = pending.slots[o]
           /\ IsApiCall("cancel") =>
                /\ SlotOf(pending'.requests, id) = 0
                /\ pending'.slots = pending.slots
           /\ \A o \in DOMAIN pending'.slots : Len(pending'.slots[o].got) <= 1]_vars

\* C25 witness: a message was delivered to the slot of an id, and a further
\* complete for that id has just answered false.
C25_Witness ==
    /\ pending # NoPending
    /\ pending.last.op = "complete" /\ ~pending.last.res
    /\ \E o \in DOMAIN pending.slots :
          /\ Len(pending.slots[o].got) = 1
          /\ pending.slots[o].got[1].stream_id = pending.last.id

\* C27 (as claimed): for every Ping the agent sends on an inbound substream of
\* an open transport the server writes one Pong with the timestamp of the Ping on
\* that substream, and it writes nothing for another message.
C27_OnePongPerPing ==
    pending # NoPending =>
        \A i \in DOMAIN pending.streams :
            LET st == pending.streams[i] IN
            /\ st.msg.type # "Ping" => st.out = <<>>
            /\ st.msg.type = "Ping" => st.out \in {<<>>, <<PongMessage(st.msg.timestamp)>>}
            /\ (st.msg.type = "Ping" /\ st.handled /\ pending.link = "up")
                  => st.out = <<PongMessage(st.msg.timestamp)>>

\* C28: when the task of an inbound substream handles an HttpResponse, WsData or
\* WsClose whose stream_id has no slot, or a variant other than those and Ping,
\* nothing is written back and the registry, the table, the transport and the
\* accept loop stay as they are.
C28_UnknownIgnored ==
    [][\A i \in DOMAIN pending.streams :
          (/\ ~pending.streams[i].handled /\ pending'.streams[i].handled
           /\ pending.streams[i].msg.type # "Ping"
           /\ SlotOf(pending.requests, pending.streams[i].msg.stream_id) = 0)
          => /\ registry' = registry
             /\ pending'.requests = pending.requests
             /\ pending'.slots = pending.slots
             /\ pending'.link = pending.link
             /\ pending'.loop = pending.loop
             /\ pending'.streams[i].out = <<>>]_vars

\* C28 witness: an HttpResponse for an unknown stream_id and then an SseClose
\* were handled, the transport is up and the loop accepts.
C28_Witness ==
    /\ pending # NoPending
    /\ Len(pending.streams) >= 2
    /\ pending.streams[1].msg.type = "HttpResponse" /\ pending.streams[1].handled
    /\ pending.streams[2].msg.type = "SseClose" /\ pending.streams[2].handled
    /\ pending.link = "up" /\ pending.loop = "accepting"

\* C26: the substream of a unary request is opened on the transport that was the
\* entry's transport when the proxy looked the entry up, and it stays on that
\* transport whatever the registry holds afterwards; the request ends with 502 or
\* 504, or with the reply that the agent of that transport wrote on the substream.
C26_BoundToLookedUpTransport ==
    [][/\ (IsLookup /\ req'.pc = "open")
            => req'.connection = get(registry, req'.id).connection
       /\ (req.pc = "open" /\ req'.pc = "await") => req'.stream = req.connection
       /\ req.pc \in {"open", "await"}
            => req'.connection = req.connection /\ req'.id = req.id
       /\ req.pc = "await" => req'.stream = req.stream
       /\ (req.pc = "await" /\ req'.pc = "done")
            => \/ req'.status \in {502, 504}
               \/ req'.status = 200 /\ AgentServing(req.connection)]_vars

\* The entry of the request's workstation is Active on another transport than
\* the one the proxy looked up.
Replaced(r) ==
    /\ get(registry, r.id) # None
    /\ get(registry, r.id).state = Active
    /\ get(registry, r.id).connection # r.connection

\* C26 witness: a request has completed with the reply of the old transport's
\* agent after a Reconnect had put another transport in the entry.
C26_Witness ==
    /\ req.pc = "done" /\ req.status = 200 /\ req.stream = req.connection
    /\ Replaced(req)
    /\ AgentServing(get(registry, req.id).connection)

\* C29 (as claimed): a WebSocket upgrade takes the WS path whatever the Accept
\* header; otherwise a request with an Accept header that contains
\* text/event-stream takes the SSE path; every other request the unary path.
C29_ClassifierPriority ==
    call.fn = "handle_http_proxy" =>
        call.path =
            IF call.ws THEN "ws"
            ELSE IF \E i \in 1..Len(call.accept) :
                        \E j \in 1..Len(call.accept[i]) : call.accept[i][j] = EventStream
            THEN "sse"
            ELSE "unary"

\* The index of the first SseClose or read error on the substream, one past the
\* end when there is none.
FirstEnd(wire) ==
    LET ends == {i \in 1..Len(wire) : wire[i].type \in {"SseClose", "Error"}} IN
    IF ends = {} THEN Len(wire) + 1 ELSE CHOOSE i \in ends : \A j \in ends : i <= j

\* The body chunks that a sequence of messages carries: the payload of each
\* SseData, in order.
RECURSIVE Carried(_)
Carried(msgs) ==
    IF msgs = <<>> THEN <<>>
    ELSE (IF \E p \in SsePayloads : Head(msgs) = SseDataMessage(encode_body(p))
          THEN <<CHOOSE p \in SsePayloads : Head(msgs) = SseDataMessage(encode_body(p))>>
          ELSE <<>>)
         \o Carried(Tail(msgs))

\* C30: the chunks sent to the body are the payloads of the SseData read so far,
\* in order, as long as the client is there; the loop reads nothing after the
\* first SseClose or read error and has then ended together with the body; with
\* the client there it ends on nothing else, whatever other variants it read.
C30_SseRelayLoop ==
    relay.pc = "sse" =>
        LET end == FirstEnd(relay.wire) IN
        /\ relay.pos <= end
        /\ IsPrefix(relay.out, Carried(SubSeq(relay.wire, 1, end - 1)))
        /\ relay.rx = "open" => relay.out = Carried(SubSeq(relay.wire, 1, relay.pos))
        /\ relay.pos = end => relay.loop = "ended"
        /\ relay.loop = "ended" <=> relay.body = "ended"
        /\ (relay.loop = "ended" /\ relay.rx = "open") => relay.pos = end

\* C30 witness: the loop read another variant, forwarded two chunks and ended at
\* an SseClose.
C30_Witness ==
    /\ relay.pc = "sse"
    /\ relay.wire = <<OtherMessage, SseDataMessage(encode_body(<<255>>)),
                      SseDataMessage(encode_body(<<72, 105>>)), SseCloseMessage>>
    /\ relay.out = <<<<255>>, <<72, 105>>>>
    /\ relay.loop = "ended" /\ relay.body = "ended" /\ relay.rx = "open"

\* C31 (as claimed): the SSE response carries the agent's status, and exactly one
\* value for content-type, cache-control and connection, namely
\* text/event-stream, no-cache and keep-alive, whatever the agent's SseHeaders
\* holds for those names.
C31_SseHeadersOverwritten ==
    call.fn = "handle_sse_proxy" =>
        /\ call.headers["content-type"] = <<"text/event-stream">>
        /\ call.headers["cache-control"] = <<"no-cache">>
        /\ call.headers["connection"] = <<"keep-alive">>

\* The SseData messages of the chunks, in order.
DataOf(chunks) == [i \in 1..Len(chunks) |-> SseDataMessage(encode_body(chunks[i]))]

\* C32 (as claimed): once handle_sse_open has returned with the substream up, it
\* has written SseHeaders (when the origin answered), one SseData per chunk in
\* order and one SseClose, and has finished the substream; the SseClose names an
\* error exactly when the origin request failed or the origin stream failed.
C32_SseOpenSequence ==
    (relay.pc = "sse_open" /\ relay.at = "returned" /\ relay.link = "up") =>
        /\ relay.finished
        /\ relay.ended = "refused" => relay.sent = <<SseClose(TRUE)>>
        /\ relay.ended = "eof" =>
              \E status \in OriginStatuses :
                  relay.sent = <<SseHeaders(status, TRUE)>> \o DataOf(relay.chunks)
                                    \o <<SseClose(FALSE)>>
        /\ relay.ended = "stream_error" =>
              \E status \in OriginStatuses :
                  relay.sent = <<SseHeaders(status, TRUE)>> \o DataOf(relay.chunks)
                                    \o <<SseClose(TRUE)>>

\* C33 (as claimed): a framing error on the handshake substream (a frame that
\* cannot be read, or a message of an unexpected variant) leaves the transport
\* up and the registry as it was.
C33_FramingErrorIsLocal ==
    [][\A c \in DOMAIN conn :
          (conn[c].pc = "free" /\ conn'[c].kind \in {"Unreadable", "Other"})
              => conn'[c].link = "up" /\ registry' = registry]_vars

\* C34: no task holds the lock of the registry or of the pending table while it
\* is suspended on I/O or on a timer, and a lock is held by one writer or by
\* readers only.
C34_NoLockAcrossIo ==
    call.fn = "locks" =>
        /\ \A t \in LockTasks :
              Program(t)[call.pc[t]].k = "io" => \A h \in call.held : h.task # t
        /\ \A h, g \in call.held :
              (h.lock = g.lock /\ h # g) => (h.mode = "read" /\ g.mode = "read")

\* C34 witness: a proxy handler that has finished get is about to open its
\* substream while a connection handler holds the write lock of the registry and
\* the other proxy handler waits for the read lock.
C34_Witness ==
    /\ call.fn = "locks"
    /\ Program(<<"proxy", 1>>)[call.pc[<<"proxy", 1>>]] = Io("open_bi")
    /\ Program(<<"proxy", 2>>)[call.pc[<<"proxy", 2>>]].k = "acquire"
    /\ \E h \in call.held : h.task = <<"register", 0>> /\ h.mode = "write"

\* C35 (as claimed): when the external client of an SSE response has gone, the
\* server's relay eventually ends (and with it the substream it reads), also
\* when nothing more arrives on the substream.
C35_RelayEndsAfterDisconnect ==
    (relay.pc = "sse" /\ relay.rx = "dropped") ~> (relay.loop = "ended")

\* The entry of id is Active on a live transport other than c.
ServedElsewhere(id, c) ==
    LET info == get(registry, id) IN
    /\ info # None
    /\ info.state = Active
    /\ info.connection # c
    /\ conn[info.connection].link = "up"

\* C36 (as claimed): when the handler of a transport that reconnect has replaced
\* sees its transport die and goes on, the entry, Active on its live current
\* transport, stays as it is.
C36_OldTransportDeathIsIgnored ==
    [][\A c \in DOMAIN conn :
          (/\ conn[c].pc \in {"serve", "unregister"}
           /\ conn'[c].pc # conn[c].pc
           /\ ServedElsewhere(conn[c].id, c))
              => registry' = registry]_vars

\* The entry of id is Active on a transport that is closed.
ActiveOnDead(id) ==
    LET info == get(registry, id) IN
    /\ info # None
    /\ info.state = Active
    /\ conn[info.connection].link = "closed"

\* The id is released: no entry, or an entry that is Reconnecting.
Released(id) ==
    LET info == get(registry, id) IN
    info = None \/ info.state.tag = "Reconnecting"

\* C37 (as claimed): an entry that is Active on a dead transport eventually
\* becomes Reconnecting or is removed.
C37_DeadEntryReleased == ActiveOnDead(1) ~> Released(1)

\* C38 (as claimed): the agent that keeps retrying with the right key
\* eventually completes a handshake with Registered, whatever the server holds
\* for its id.
C38_EventuallyRegistered ==
    <>(\E c \in DOMAIN conn : conn[c].reply = "Registered")

\* C39: a call of register that fails (Duplicate) and a call of reconnect that
\* fails (NotFound, GraceExpired) leave the registry as it was; after a
\* GraceExpired the entry is still there, Reconnecting since the same instant,
\* and get returns it.
C39_FailedCallChangesNothing ==
    [][/\ (IsCall("register") /\ last'.res # "Ok") => registry' = registry
       /\ (IsCall("reconnect") /\ last'.res # "Ok") => registry' = registry
       /\ (IsCall("reconnect") /\ last'.res = "GraceExpired")
            => /\ get(registry', last'.id) # None
               /\ get(registry', last'.id) = get(registry, last'.id)
               /\ get(registry', last'.id).state.tag = "Reconnecting"]_vars

\* C39 witness: the three refusals have happened: the last call is a reconnect
\* refused for an expired entry that is still in the registry beside an Active
\* one.
C39_Witness ==
    /\ last.op = "reconnect" /\ last.res = "GraceExpired"
    /\ get(registry, last.id) # None
    /\ \E e \in registry : e.state = Active

\* The agent of transport c has read Registered and is running, and every other
\* transport opened for its id is closed.
OnlyLiveAgent(c) ==
    /\ AgentServing(c)
    /\ \A d \in DOMAIN conn \ {c} : conn[d].id = conn[c].id => conn[d].link = "closed"

\* C40 (as claimed): Registered is written on a transport only after the
\* handler's register or reconnect has made the entry of the id Active on that
\* transport; a handshake that got a reply gets no other; and a request that arrives while the agent that read Registered is
\* the only live agent of its id is routed to that agent's transport.
C40_RegisteredMeansRoutable ==
    [][\A c \in DOMAIN conn :
          /\ (conn[c].reply # "Registered" /\ conn'[c].reply = "Registered")
                => conn[c].pc = "reply"
          /\ (conn[c].pc # "reply" /\ conn'[c].pc = "reply")
                => get(registry', conn[c].id) = WorkstationInfo(conn[c].id, c, Active)
          /\ (conn[c].reply # "none" /\ conn'[c].pc # "free")
                => conn'[c].reply = conn[c].reply
          /\ (IsLookup /\ req'.id = conn[c].id /\ OnlyLiveAgent(c))
                => req'.pc = "open" /\ req'.connection = c]_vars

====
